---- MODULE Spec2Model ----
(***************************************************************************)
(* Dermalens backend: the comprehensive analysis workflow                  *)
(* (comprehensive_analysis_service.py), the product search service         *)
(* (google_search_service.py), the vision service                          *)
(* (openai_analysis_service.py) and the database manager (database.py).    *)
(*                                                                         *)
(* Conventions.  Scores are hundredths (0.5 is 50).  A text (a title, a    *)
(* snippet, the vision model's answer) is the set of the words and phrases *)
(* it contains, lower-cased; "kw in text" is Mentions(text, kw).  An URL   *)
(* is a natural number, 0 being the empty string.  Python's None is a      *)
(* record with kind "none".                                                *)
(***************************************************************************)
EXTENDS Integers, Sequences, FiniteSets, TLC

\* ------------------------------------------------------------------ bounds
CatalogSize == 16      \* pages the search engine knows
MaxConditionsIn == 2   \* conditions given to search_products_for_conditions in SpecSearch
MaxWindow == 2         \* longest answer of the search engine in Spec and SpecSearch
MaxImages == 3         \* rows the user_images table can hold
MaxMentions == 7       \* phrases of the vision model's answer

\* ------------------------------------------------------- program constants
GOOGLE_SEARCH_MAX_RESULTS == 10
ApiMaxPerRequest == 10
IngredientMaxResults == 5
TopConditions == 3
TopIngredients == 2
TopProducts == 10
BaseScore == 50
RetailerBoost == 30
StructuredDataBoost == 20
ConditionBoost == 10
RatingBoost == 10
PriceBoost == 5
MaxScore == 100
NoScore == 0 - 1       \* the key is absent from the product dict

Min(a, b) == IF a < b THEN a ELSE b

\* ------------------------------------------------------------------- texts
\* The substring relation of Python's "kw in text" on the phrases used here.
Mentions(text, kw) ==
    \/ kw \in text
    \/ kw = "dry" /\ "dryness" \in text
    \/ kw = "cream" /\ "eye cream" \in text
    \/ kw = "fragrance" /\ "fragrance-free" \in text

\* -------------------------------------------------- the search engine's pages
\* A page as the Custom Search API returns it (an element of "items").
ItemLink(k) ==
    IF k % 7 = 0 THEN 0
    ELSE IF k % 8 = 3 THEN k - 1
    ELSE k

ItemTitle(k) ==
    CASE k % 5 = 0 -> {"gentle", "cleanser"}
      [] k % 5 = 1 -> {"serum"}
      [] k % 5 = 2 -> {"moisturizer"}
      [] k % 5 = 3 -> {"sunscreen", "spf"}
      [] OTHER     -> {"toner"}

ItemSnippet(k) ==
    CASE k % 4 = 1 -> {"fragrance", "alcohol"}
      [] k % 4 = 2 -> {"fragrance-free"}
      [] OTHER     -> {"gentle"}

CatalogItem(k) ==
    [ link        |-> ItemLink(k),
      title       |-> ItemTitle(k),
      snippet     |-> ItemSnippet(k),
      retailer    |-> (k % 2 = 0),
      has_product |-> (k % 3 = 0),
      ratingvalue |-> (k % 6 = 0),
      has_offer   |-> (k % 5 \in {0, 1}) ]

\* An answer of the engine: n pages of its index from page a on (wrapping
\* around), in rank order.
Window(a, n) == [i \in 1..n |-> CatalogItem(((a + i - 2) % CatalogSize) + 1)]

ApiError == [kind |-> "error", items |-> <<>>]
ApiOk(items) == [kind |-> "ok", items |-> items]

\* ------------------------------------------------------------ skin profiles
NoAllergies == [kind |-> "absent", items |-> <<>>]
NoProfile ==
    [kind |-> "none", allergies |-> NoAllergies, sensitivity_level |-> "none",
     skin_type |-> "none"]
SkinRow(al, sens) ==
    [kind |-> "row", allergies |-> al, sensitivity_level |-> sens, skin_type |-> "normal"]

\* Python truthiness of profile["allergies"]: the key is there, not None, not [].
AllergiesTruthy(al) == al.kind = "list" /\ al.items # <<>>

\* --------------------------------------------------- google_search_service
NoFilters == [ingredients_exclude |-> <<>>, ingredients_include |-> <<>>]

_build_filters_from_profile(user_profile) ==
    IF user_profile.kind = "none" THEN NoFilters
    ELSE [ ingredients_exclude |->
               IF AllergiesTruthy(user_profile.allergies)
               THEN user_profile.allergies.items ELSE <<>>,
           ingredients_include |->
               IF user_profile.sensitivity_level = "high"
               THEN <<"fragrance-free", "gentle", "hypoallergenic">> ELSE <<>> ]

\* The query string, kept as its parts: query, "for <condition>",
\* "with <includes>", and one "-<ingredient>" per exclusion.
_build_search_query(query, skin_condition, filters) ==
    [ query     |-> query,
      condition |-> skin_condition,
      include   |-> filters.ingredients_include,
      exclude   |-> filters.ingredients_exclude ]

_calculate_relevance(item) ==
    Min(BaseScore
          + (IF item.retailer THEN RetailerBoost ELSE 0)
          + (IF item.has_product THEN StructuredDataBoost ELSE 0),
        MaxScore)

_parse_search_results(items) ==
    [ i \in 1..Len(items) |->
        [ name               |-> items[i].title,
          description        |-> items[i].snippet,
          url                |-> items[i].link,
          rank               |-> i,
          relevance_score    |-> _calculate_relevance(items[i]),
          price              |-> items[i].has_offer,
          rating             |-> (items[i].has_product /\ items[i].ratingvalue),
          conditions_matched |-> <<>>,
          final_score        |-> NoScore ] ]

\* _execute_search: the engine answers at most num = min(max_results, 10)
\* pages, or the call raises.
_execute_search(outcome, max_results) ==
    IF outcome.kind = "error" THEN outcome
    ELSE ApiOk(SubSeq(outcome.items, 1,
                      Min(Len(outcome.items), Min(max_results, ApiMaxPerRequest))))

\* Variant: a request that failed is sent a second time.
search_products_with_retry(enabled, query, skin_condition, max_results, filters, outcome) ==
    LET search_query == _build_search_query(query, skin_condition, filters)
        results == _execute_search(outcome, max_results)
    IN  IF ~enabled
        THEN [success |-> FALSE, products |-> <<>>, queries |-> <<>>]
        ELSE IF results.kind = "error"
        THEN [success |-> FALSE, products |-> <<>>,
              queries |-> <<search_query, search_query>>]
        ELSE [ success  |-> TRUE,
               products |-> _parse_search_results(results.items),
               queries  |-> <<search_query>> ]

\* search_products; outcome is what the engine does with the request.  The
\* field "queries" lists the requests that went out to the engine.
search_products(enabled, query, skin_condition, max_results, filters, outcome) ==
    IF ~enabled
    THEN [success |-> FALSE, products |-> <<>>, queries |-> <<>>]
    ELSE LET search_query == _build_search_query(query, skin_condition, filters)
             results == _execute_search(outcome, max_results)
         IN  IF results.kind = "error"
             THEN [success |-> FALSE, products |-> <<>>, queries |-> <<search_query>>]
             ELSE [ success  |-> TRUE,
                    products |-> _parse_search_results(results.items),
                    queries  |-> <<search_query>> ]

\* Stable sort of a sequence of [k, v] pairs by k, greatest first
\* (list.sort(key=..., reverse=True)).
\* The place of pairs[i] in the sorted list: after every greater key and
\* after the equal keys that stood before it.
PlaceDesc(pairs, i) ==
    Cardinality({j \in 1..Len(pairs) : pairs[j].k > pairs[i].k})
    + Cardinality({j \in 1..i : pairs[j].k = pairs[i].k})

SortPairsDesc(pairs) ==
    [ p \in 1..Len(pairs) |->
        pairs[CHOOSE i \in 1..Len(pairs) : PlaceDesc(pairs, i) = p] ]

Values(pairs) == [i \in 1..Len(pairs) |-> pairs[i].v]

\* products_by_condition.items(): one (condition, product) pair per product.
RECURSIVE FlattenByCondition(_)
FlattenByCondition(pbc) ==
    IF pbc = <<>> THEN <<>>
    ELSE [ i \in 1..Len(pbc[1].products) |->
             [condition |-> pbc[1].condition, product |-> pbc[1].products[i]] ]
         \o FlattenByCondition(Tail(pbc))

SeenUrls(unique) == { unique[i].url : i \in 1..Len(unique) }

\* The loop body of the flattening loop of _deduplicate_and_rank.
DedupStep(unique, condition, product) ==
    IF product.url # 0 /\ product.url \notin SeenUrls(unique)
    THEN Append(unique, [product EXCEPT !.conditions_matched = <<condition>>])
    ELSE IF product.url \in SeenUrls(unique)
    THEN LET j == CHOOSE i \in 1..Len(unique) :
                    /\ unique[i].url = product.url
                    /\ \A h \in 1..(i - 1) : unique[h].url # product.url
         IN  [unique EXCEPT ![j].conditions_matched = Append(@, condition)]
    ELSE unique

\* The flattening loop itself: DedupStep for every entry in order.  The list
\* is walked in two halves; the first half's result is computed (its length
\* read) before the second half continues from it, which keeps the
\* evaluation shallow.
RECURSIVE DedupFold(_, _)
DedupFold(entries, unique) ==
    IF entries = <<>> THEN unique
    ELSE IF Len(entries) = 1
    THEN DedupStep(unique, entries[1].condition, entries[1].product)
    ELSE LET h == Len(entries) \div 2
             first == DedupFold(SubSeq(entries, 1, h), unique)
         IN  IF Len(first) >= 0
             THEN DedupFold(SubSeq(entries, h + 1, Len(entries)), first)
             ELSE first

\* Variant: the score is not capped.
RankScoreUncapped(product) ==
    product.relevance_score
      + Len(product.conditions_matched) * ConditionBoost
      + (IF product.rating THEN RatingBoost ELSE 0)
      + (IF product.price THEN PriceBoost ELSE 0)

RankScore(product) ==
    Min(product.relevance_score
          + Len(product.conditions_matched) * ConditionBoost
          + (IF product.rating THEN RatingBoost ELSE 0)
          + (IF product.price THEN PriceBoost ELSE 0),
        MaxScore)

_deduplicate_and_rank(products_by_condition) ==
    LET unique == DedupFold(FlattenByCondition(products_by_condition), <<>>)
        ranked == [ i \in 1..Len(unique) |->
                      [unique[i] EXCEPT !.final_score = RankScore(unique[i])] ]
    IN  Values(SortPairsDesc([ i \in 1..Len(ranked) |->
                                 [k |-> ranked[i].final_score, v |-> ranked[i]] ]))

\* all_products[condition] = products on a Python dict kept as a list of items.
DictSet(pbc, condition, products) ==
    IF \E i \in 1..Len(pbc) : pbc[i].condition = condition
    THEN [ i \in 1..Len(pbc) |->
             IF pbc[i].condition = condition
             THEN [pbc[i] EXCEPT !.products = products] ELSE pbc[i] ]
    ELSE Append(pbc, [condition |-> condition, products |-> products])

\* The loop of search_products_for_conditions: outcomes[i] is what the
\* engine did for conditions[i].
\* _deduplicate_and_rank writes conditions_matched and final_score into the
\* product dicts themselves, so the first product of every URL shows them in
\* products_by_condition too.
SharedDicts(pbc, ranked) ==
    [ c \in 1..Len(pbc) |->
        LET products == pbc[c].products
            IsFirst(i) ==
                /\ products[i].url # 0
                /\ ~\E c2 \in 1..c : \E i2 \in 1..Len(pbc[c2].products) :
                       /\ c2 < c \/ i2 < i
                       /\ pbc[c2].products[i2].url = products[i].url
        IN  [ condition |-> pbc[c].condition,
              products  |-> [ i \in 1..Len(products) |->
                                IF IsFirst(i)
                                THEN CHOOSE r \in { ranked[k] : k \in 1..Len(ranked) } :
                                         r.url = products[i].url
                                ELSE products[i] ] ] ]

RECURSIVE ConditionLoop(_, _, _, _)
ConditionLoop(conditions, user_profile, outcomes, acc) ==
    IF conditions = <<>> THEN acc
    ELSE LET condition == conditions[1]
             filters == _build_filters_from_profile(user_profile)
             result == search_products(TRUE, "skincare products for", condition,
                                       GOOGLE_SEARCH_MAX_RESULTS, filters, outcomes[1])
         IN  ConditionLoop(Tail(conditions), user_profile, Tail(outcomes),
                 [ all_products |-> IF result.success
                                    THEN DictSet(acc.all_products, condition, result.products)
                                    ELSE acc.all_products,
                   queries      |-> acc.queries \o result.queries ])

search_products_for_conditions(enabled, conditions, user_profile, outcomes) ==
    IF ~enabled
    THEN [ success               |-> FALSE,
           products_by_condition |-> <<>>,
           recommended_products  |-> <<>>,
           total_products        |-> 0,
           queries               |-> <<>> ]
    ELSE LET loop == ConditionLoop(conditions, user_profile, outcomes,
                                   [all_products |-> <<>>, queries |-> <<>>])
             deduplicated_products == _deduplicate_and_rank(loop.all_products)
         IN  [ success               |-> TRUE,
               products_by_condition |-> SharedDicts(loop.all_products, deduplicated_products),
               recommended_products  |-> deduplicated_products,
               total_products        |-> Len(deduplicated_products),
               queries               |-> loop.queries ]

\* ------------------------------------------------- openai_analysis_service
conditions_keywords ==
    << "acne", "hyperpigmentation", "dark spots", "wrinkles", "fine lines",
       "rosacea", "eczema", "dryness", "oily", "blackheads", "whiteheads",
       "enlarged pores", "redness", "inflammation", "aging signs", "sun damage" >>

skin_types == << "oily", "dry", "combination", "normal", "sensitive" >>

ingredients_keywords ==
    << "niacinamide", "retinol", "hyaluronic acid", "vitamin c", "salicylic acid",
       "benzoyl peroxide", "azelaic acid", "glycolic acid", "ceramides",
       "peptides", "antioxidants", "spf", "sunscreen" >>

product_types ==
    << "cleanser", "toner", "serum", "moisturizer", "sunscreen",
       "exfoliant", "mask", "spot treatment", "eye cream" >>

\* condition.replace(" ", "_")
Underscore(c) ==
    CASE c = "dark spots"     -> "dark_spots"
      [] c = "fine lines"     -> "fine_lines"
      [] c = "enlarged pores" -> "enlarged_pores"
      [] c = "aging signs"    -> "aging_signs"
      [] c = "sun damage"     -> "sun_damage"
      [] OTHER                -> c

\* condition.replace("_", " ")
Spaces(c) ==
    CASE c = "dark_spots"     -> "dark spots"
      [] c = "fine_lines"     -> "fine lines"
      [] c = "enlarged_pores" -> "enlarged pores"
      [] c = "aging_signs"    -> "aging signs"
      [] c = "sun_damage"     -> "sun damage"
      [] OTHER                -> c

\* [f(k) for k in keywords if k in text]
RECURSIVE KeywordsIn(_, _)
KeywordsIn(keywords, text) ==
    IF keywords = <<>> THEN <<>>
    ELSE (IF Mentions(text, keywords[1]) THEN <<keywords[1]>> ELSE <<>>)
         \o KeywordsIn(Tail(keywords), text)

_parse_analysis_response(analysis_text) ==
    LET conds == KeywordsIn(conditions_keywords, analysis_text)
        types == KeywordsIn(skin_types, analysis_text)
    IN  [ conditions_detected       |-> [i \in 1..Len(conds) |-> Underscore(conds[i])],
          skin_type                 |-> IF types = <<>> THEN "unknown" ELSE types[1],
          recommended_ingredients   |-> KeywordsIn(ingredients_keywords, analysis_text),
          recommended_product_types |-> KeywordsIn(product_types, analysis_text),
          full_analysis             |-> analysis_text ]

NoAnalysis == _parse_analysis_response({})

\* analyze_skin_image; outcome is what the hosted model did with the request
\* ("error": the call raised, "ok": it answered outcome.text).
analyze_skin_image(enabled, outcome) ==
    IF ~enabled
    THEN [success |-> FALSE, error |-> "OpenAI API is not enabled",
          analysis |-> NoAnalysis, model_used |-> "none"]
    ELSE IF outcome.kind = "error"
    THEN [success |-> FALSE, error |-> "exception",
          analysis |-> NoAnalysis, model_used |-> "none"]
    ELSE [success |-> TRUE, error |-> "none",
          analysis |-> _parse_analysis_response(outcome.text), model_used |-> "gpt-4o"]

NoRecommendations ==
    [ success |-> FALSE, search_queries |-> <<>>, conditions |-> <<>>,
      recommended_ingredients |-> <<>>, recommended_products |-> <<>>,
      skin_type |-> "unknown" ]

generate_personalized_recommendations(analysis_result) ==
    IF ~analysis_result.success THEN NoRecommendations
    ELSE LET analysis == analysis_result.analysis
             top3 == SubSeq(analysis.recommended_ingredients, 1,
                            Min(3, Len(analysis.recommended_ingredients)))
         IN  [ success |-> TRUE,
               search_queries |->
                   [i \in 1..Len(analysis.conditions_detected) |->
                       [kind |-> "treatment for", arg |-> Spaces(analysis.conditions_detected[i])]]
                   \o [i \in 1..Len(top3) |-> [kind |-> "serum with", arg |-> top3[i]]]
                   \o [i \in 1..Len(analysis.recommended_product_types) |->
                       [kind |-> "for skin", arg |-> analysis.recommended_product_types[i]]],
               conditions |-> analysis.conditions_detected,
               recommended_ingredients |-> analysis.recommended_ingredients,
               recommended_products |-> analysis.recommended_product_types,
               skin_type |-> analysis.skin_type ]

\* ----------------------------------------------------------------- database
Users == {"u1", "u2"}

ImageIds == 1..MaxImages
NoImageId == 0         \* image_id is None (or the empty string)

ImageOwner(i) == IF i % 2 = 1 THEN "u1" ELSE "u2"
ImageCreatedAt(i) == (i * 3) % 5

ImageRow(i) ==
    [ id |-> i, user_id |-> ImageOwner(i), storage_path |-> i,
      bucket |-> "user-images", created_at |-> ImageCreatedAt(i) ]

NoImage ==
    [ id |-> NoImageId, user_id |-> "none", storage_path |-> 0,
      bucket |-> "none", created_at |-> 0 ]

\* .order("created_at", desc=True)
RECURSIVE OrderByCreatedAtDesc(_)
OrderByCreatedAtDesc(rows) ==
    IF rows = {} THEN <<>>
    ELSE LET newest == CHOOSE r \in rows :
                 \A q \in rows : \/ q.created_at < r.created_at
                                 \/ q.created_at = r.created_at /\ q.id >= r.id
         IN  <<newest>> \o OrderByCreatedAtDesc(rows \ {newest})

\* Variant: the rows of every user (the eq("user_id", ...) filter is missing).
SelectUserImagesOfAll(table, uid) == OrderByCreatedAtDesc(table)

\* select("*").eq("user_id", user_id).order("created_at", desc=True)
SelectUserImages(table, uid) ==
    OrderByCreatedAtDesc({ r \in table : r.user_id = uid })

\* DatabaseManager.get_user_images; ok is whether the query went through.
get_user_images(table, uid, ok) ==
    IF ok THEN [success |-> TRUE, data |-> SelectUserImages(table, uid)]
    ELSE [success |-> FALSE, data |-> <<>>]

ProfileRow(uid) == [kind |-> "row", id |-> uid, username |-> uid]
NoProfileRow == [kind |-> "none", id |-> "none", username |-> "none"]

\* DatabaseManager.get_profile: result.data[0] if result.data else None
get_profile(table, uid, ok) ==
    IF ok THEN [success |-> TRUE,
                data |-> IF uid \in table THEN ProfileRow(uid) ELSE NoProfileRow]
    ELSE [success |-> FALSE, data |-> NoProfileRow]

\* DatabaseManager.get_skin_profile; table maps a user to the row or to NoProfile
get_skin_profile(table, uid, ok) ==
    IF ok THEN [success |-> TRUE, data |-> table[uid]]
    ELSE [success |-> FALSE, data |-> NoProfile]

\* ------------------------------------------- comprehensive_analysis_service
\* Variant: the slice keeps the whole list.
TakeAll(seq, n) == seq

Take(seq, n) == SubSeq(seq, 1, Min(n, Len(seq)))

\* The loop over recommended_ingredients[:2] of
\* _search_products_for_recommendations.
RECURSIVE IngredientLoop(_, _, _)
IngredientLoop(ingredients, outcomes, acc) ==
    IF ingredients = <<>> THEN acc
    ELSE LET result == search_products(TRUE, "skincare serum", ingredients[1],
                                       IngredientMaxResults, NoFilters, outcomes[1])
         IN  IngredientLoop(Tail(ingredients), Tail(outcomes),
                 [ all_products |-> IF result.success
                                    THEN acc.all_products \o result.products
                                    ELSE acc.all_products,
                   queries_used |-> IF result.success
                                    THEN Append(acc.queries_used, ingredients[1])
                                    ELSE acc.queries_used,
                   api_queries  |-> acc.api_queries \o result.queries ])

\* The body of the deduplication loop.
UniqueStep(unique_products, product) ==
    IF product.url # 0 /\ product.url \notin SeenUrls(unique_products)
    THEN Append(unique_products, product)
    ELSE unique_products

\* Variant: seen_urls is never consulted.
UniqueByUrlNoSeen(all_products, unique_products) ==
    unique_products \o SelectSeq(all_products, LAMBDA p : p.url # 0)

\* The deduplication loop: UniqueStep for every product in order, walked in
\* two halves like DedupFold.
RECURSIVE UniqueByUrl(_, _)
UniqueByUrl(all_products, unique_products) ==
    IF all_products = <<>> THEN unique_products
    ELSE IF Len(all_products) = 1
    THEN UniqueStep(unique_products, all_products[1])
    ELSE LET h == Len(all_products) \div 2
             first == UniqueByUrl(SubSeq(all_products, 1, h), unique_products)
         IN  IF Len(first) >= 0
             THEN UniqueByUrl(SubSeq(all_products, h + 1, Len(all_products)), first)
             ELSE first

\* x.get("final_score", x.get("relevance_score", 0))
SortKey(product) ==
    IF product.final_score # NoScore THEN product.final_score ELSE product.relevance_score

NoTotal == 0 - 1       \* the key "total_found" is absent

\* condOutcomes[i] is the engine's answer for the i-th of the (at most 3)
\* conditions, ingrOutcomes[i] for the i-th of the (at most 2) ingredients.
_search_products_for_recommendations(enabled, recommendations, user_skin_profile, condOutcomes, ingrOutcomes) ==
    IF ~enabled
    THEN [ products |-> <<>>, search_queries_used |-> <<>>, total_found |-> NoTotal,
           source |-> "mock", api_queries |-> <<>> ]
    ELSE LET conditions == recommendations.conditions
             result == search_products_for_conditions(
                           enabled, Take(conditions, TopConditions),
                           user_skin_profile, condOutcomes)
             afterConditions ==
                 IF conditions # <<>>
                 THEN [ all_products |-> IF result.success
                                         THEN result.recommended_products ELSE <<>>,
                        queries_used |-> IF result.success
                                         THEN <<"Conditions">> ELSE <<>>,
                        api_queries  |-> result.queries ]
                 ELSE [all_products |-> <<>>, queries_used |-> <<>>, api_queries |-> <<>>]
             afterIngredients ==
                 IngredientLoop(Take(recommendations.recommended_ingredients, TopIngredients),
                                ingrOutcomes, afterConditions)
             unique_products == UniqueByUrl(afterIngredients.all_products, <<>>)
             sorted == Values(SortPairsDesc(
                           [ i \in 1..Len(unique_products) |->
                               [k |-> SortKey(unique_products[i]), v |-> unique_products[i]] ]))
         IN  [ products            |-> Take(sorted, TopProducts),
               search_queries_used |-> afterIngredients.queries_used,
               total_found         |-> Len(unique_products),
               source              |-> "google_search",
               api_queries         |-> afterIngredients.api_queries ]

NameHas(product_list, words) ==
    SelectSeq(product_list, LAMBDA p : \E w \in words : Mentions(p.name, w))

RoutineStep(n, action, product) ==
    [step |-> n, action |-> action, product |-> product.name, url |-> product.url]

\* One of the two routines of _generate_skincare_routine; step is the counter.
RoutineOf(cleansers, serums, moisturizers, sunscreens, actions) ==
    LET s1 == IF cleansers # <<>>
              THEN <<RoutineStep(1, actions[1], cleansers[1])>> ELSE <<>>
        top == Take(serums, 2)
        s2 == s1 \o [i \in 1..Len(top) |-> RoutineStep(Len(s1) + i, "Treatment Serum", top[i])]
        s3 == IF moisturizers # <<>>
              THEN Append(s2, RoutineStep(Len(s2) + 1, actions[2], moisturizers[1])) ELSE s2
    IN  IF sunscreens # <<>>
        THEN Append(s3, RoutineStep(Len(s3) + 1, "Sunscreen SPF 30+", sunscreens[1])) ELSE s3

_generate_skincare_routine(analysis, products) ==
    LET product_list == products.products
        cleansers == NameHas(product_list, {"cleanser"})
        serums == NameHas(product_list, {"serum"})
        moisturizers == NameHas(product_list, {"moisturizer", "cream"})
        sunscreens == NameHas(product_list, {"sunscreen", "spf"})
    IN  [ morning |-> RoutineOf(cleansers, serums, moisturizers, sunscreens,
                                <<"Gentle Cleanser", "Moisturizer">>),
          evening |-> RoutineOf(cleansers, serums, moisturizers, <<>>,
                                <<"Double Cleanse", "Night Moisturizer">>),
          key_ingredients |-> analysis.recommended_ingredients ]

\* --------------------------------------------------- analyze_user_by_id: state
VARIABLES
    profiles,           \* table profiles: the ids that have a row
    skin_profiles,      \* table user_skin_profiles: user id -> row or NoProfile
    images,             \* table user_images: set of rows
    search_enabled,     \* google_search_service.enabled
    openai_enabled,     \* openai_analysis_service.enabled
    user_id, image_id,  \* the arguments of the run
    pc,                 \* the step the run is at
    calls,              \* the calls to collaborators the run has issued, in order
    user_profile, user_skin_profile, user_images, image_to_analyze, image_data,
    analysis_result, recommendations, products, routine,
    result,             \* what the run returned
    sPc, sArgs, sRet,   \* a single call of a function: arguments, return value
    tPc,                \* train_model: where the run is
    epoch,              \* epochs completed
    val_accuracies,     \* the validation accuracy of every completed epoch
    best_val_acc,
    model_file,         \* models/skin_classifier.pth: whose weights it holds
    saved_at,           \* the epochs at whose end torch.save was called
    auth_users,         \* the auth provider's users
    valid_tokens,       \* the access tokens the auth provider accepts
    signed_out,         \* the tokens a sign-out was answered for
    api_count,          \* requests the API has answered
    api_last            \* the last request and its answer

wfVars == << profiles, skin_profiles, images, search_enabled, openai_enabled,
             user_id, image_id, pc, calls, user_profile, user_skin_profile,
             user_images, image_to_analyze, image_data, analysis_result,
             recommendations, products, routine, result >>
sVars == << sPc, sArgs, sRet >>
tVars == << tPc, epoch, val_accuracies, best_val_acc, model_file, saved_at >>
apiVars == << auth_users, valid_tokens, signed_out, api_count, api_last >>
vars == << wfVars, sVars, tVars, apiVars >>

\* The phrases the hosted model's answer is made of, and the answers tried.
Phrases ==
    << "acne", "retinol", "dark spots", "niacinamide", "dryness", "vitamin c",
       "oily", "sunscreen", "cleanser", "wrinkles", "eye cream", "serum" >>

VisionTexts ==
    { { Phrases[i] : i \in 1..n } : n \in 0..Min(MaxMentions, Len(Phrases)) }

VisionOutcomes ==
    { [kind |-> "error", text |-> {}] } \cup { [kind |-> "ok", text |-> t] : t \in VisionTexts }

\* requests.get on the storage URL: no answer or a non-200 status (None),
\* or status 200 with a body of size bytes.
DownloadOutcomes ==
    { [kind |-> "none", size |-> 0], [kind |-> "bytes", size |-> 0],
      [kind |-> "bytes", size |-> 1] }

SkinForms ==
    { NoProfile,
      SkinRow([kind |-> "null", items |-> <<>>], "low"),
      SkinRow([kind |-> "list", items |-> <<>>], "low"),
      SkinRow([kind |-> "list", items |-> <<"fragrance">>], "high") }

\* The engine's answers tried in one run of the workflow, for a condition
\* query and for an ingredient query.
ConditionOutcomes == { ApiError, ApiOk(Window(5, MaxWindow)) }
IngredientOutcomes == { ApiError, ApiOk(Window(2, MaxWindow)) }

\* The tables tried: the first n image rows, and at most one skin profile row.
ImageTables == { { ImageRow(i) : i \in 1..n } : n \in 0..MaxImages }
SkinTables ==
    { [u \in Users |-> IF u = owner THEN form ELSE NoProfile] :
          owner \in Users, form \in SkinForms }

NoProducts ==
    [ products |-> <<>>, search_queries_used |-> <<>>, total_found |-> NoTotal,
      source |-> "none", api_queries |-> <<>> ]
NoRoutine == [morning |-> <<>>, evening |-> <<>>, key_ingredients |-> <<>>]
NoAnalysisResult == analyze_skin_image(FALSE, [kind |-> "error", text |-> {}])
NoImageData == [kind |-> "none", size |-> 0]

\* ------------------------------------------------------ the returned dicts
NoResult ==
    [ outcome |-> "running", keys |-> {}, success |-> FALSE,
      error |-> "none", step_failed |-> "none",
      user_profile |-> NoProfileRow, skin_profile |-> NoProfile,
      ai_analysis |-> NoAnalysis, model_used |-> "none",
      product_recommendations |-> NoProducts,
      personalized_routine |-> NoRoutine, image_analyzed |-> NoImage ]

Failure(error, step_failed) ==
    [ NoResult EXCEPT !.outcome = "returned",
                      !.keys = {"success", "error", "step_failed"},
                      !.error = error, !.step_failed = step_failed ]

\* Variant: no catch-all, the exception leaves the handler.
OnExceptionPropagate == [NoResult EXCEPT !.outcome = "raised"]

\* except Exception as e: the handler's catch-all
OnException == Failure("Analysis failed", "unknown")

Success(up, usp, ar, prods, rout, img) ==
    [ outcome |-> "returned",
      keys |-> { "success", "user_profile", "skin_profile", "ai_analysis",
                 "product_recommendations", "personalized_routine", "image_analyzed" },
      success |-> TRUE, error |-> "none", step_failed |-> "none",
      user_profile |-> up, skin_profile |-> usp,
      ai_analysis |-> ar.analysis, model_used |-> ar.model_used,
      product_recommendations |-> prods,
      personalized_routine |-> rout, image_analyzed |-> img ]

\* ------------------------------------------------------------------- Init
InitSearchIdle ==
    /\ sPc = "idle"
    /\ sArgs = <<>>
    /\ sRet = <<>>

\* models/skin_classifier.pth: no file, the file an earlier run of
\* train_model left, or (a positive number) the weights after that epoch.
NoFile == 0 - 1
EarlierRun == 0

\* No request has been answered.
NoRequest ==
    [ endpoint |-> "none", token |-> "none", auth |-> "none", get_user |-> "none",
      user |-> "none",
      status |-> 0, detail |-> "none", db_ops |-> <<>>, upstream |-> "none",
      data |-> "none", target |-> 0, was_signed_out |-> FALSE ]

InitApiIdle ==
    /\ auth_users = {}
    /\ valid_tokens = {}
    /\ signed_out = {}
    /\ api_count = 0
    /\ api_last = NoRequest

InitTrainIdle ==
    /\ tPc = "idle"
    /\ epoch = 0
    /\ val_accuracies = <<>>
    /\ best_val_acc = 0
    /\ model_file = NoFile
    /\ saved_at = {}

InitWorkflowLocals ==
    /\ calls = <<>>
    /\ user_profile = NoProfileRow
    /\ user_skin_profile = NoProfile
    /\ user_images = <<>>
    /\ image_to_analyze = NoImage
    /\ image_data = NoImageData
    /\ analysis_result = NoAnalysisResult
    /\ recommendations = NoRecommendations
    /\ products = NoProducts
    /\ routine = NoRoutine
    /\ result = NoResult

Init ==
    /\ profiles \in SUBSET Users
    /\ skin_profiles \in SkinTables
    /\ images \in ImageTables
    /\ search_enabled \in BOOLEAN
    /\ openai_enabled \in BOOLEAN
    /\ user_id \in Users
    /\ image_id \in {NoImageId} \cup ImageIds
    /\ pc = "fetch_profile"
    /\ InitWorkflowLocals
    /\ InitSearchIdle
    /\ InitTrainIdle
    /\ InitApiIdle

\* ------------------------------------------------- analyze_user_by_id: steps
Return(r) ==
    /\ result' = r
    /\ pc' = "done"

Goto(step) ==
    /\ pc' = step
    /\ UNCHANGED result

\* Step 1 (lines 49-59).  A row-less answer passes the success test, and
\* user_profile.get on None raises inside the f-string of line 59.
FetchProfile ==
    /\ pc = "fetch_profile"
    /\ \E ok \in BOOLEAN :
         LET profile_result == get_profile(profiles, user_id, ok)
         IN  /\ calls' = Append(calls, "get_profile")
             /\ user_profile' = IF profile_result.success
                                THEN profile_result.data ELSE user_profile
             /\ IF ~profile_result.success
                THEN Return(Failure("User profile not found", "fetch_profile"))
                ELSE IF profile_result.data.kind = "none"
                THEN Return(OnException)
                ELSE Goto("fetch_skin_profile")
    /\ UNCHANGED << profiles, skin_profiles, images, search_enabled, openai_enabled,
                    user_id, image_id, user_skin_profile, user_images,
                    image_to_analyze, image_data, analysis_result,
                    recommendations, products, routine, sVars, tVars, apiVars >>

\* Step 2 (lines 61-66).  len(user_skin_profile.get('allergies', [])) raises
\* when the column holds null.
FetchSkinProfile ==
    /\ pc = "fetch_skin_profile"
    /\ \E ok \in BOOLEAN :
         LET skin_profile_result == get_skin_profile(skin_profiles, user_id, ok)
             usp == IF skin_profile_result.success
                    THEN skin_profile_result.data ELSE NoProfile
         IN  /\ calls' = Append(calls, "get_skin_profile")
             /\ user_skin_profile' = usp
             /\ IF usp.kind # "none" /\ usp.allergies.kind = "null"
                THEN Return(OnException)
                ELSE Goto("fetch_images")
    /\ UNCHANGED << profiles, skin_profiles, images, search_enabled, openai_enabled,
                    user_id, image_id, user_profile, user_images,
                    image_to_analyze, image_data, analysis_result,
                    recommendations, products, routine, sVars, tVars, apiVars >>

\* Step 3 (lines 68-78)
FetchImages ==
    /\ pc = "fetch_images"
    /\ \E ok \in BOOLEAN :
         LET images_result == get_user_images(images, user_id, ok)
         IN  /\ calls' = Append(calls, "get_user_images")
             /\ IF ~images_result.success \/ images_result.data = <<>>
                THEN /\ Return(Failure("No images found for this user", "fetch_images"))
                     /\ UNCHANGED user_images
                ELSE /\ Goto("select_image")
                     /\ user_images' = images_result.data
    /\ UNCHANGED << profiles, skin_profiles, images, search_enabled, openai_enabled,
                    user_id, image_id, user_profile, user_skin_profile,
                    image_to_analyze, image_data, analysis_result,
                    recommendations, products, routine, sVars, tVars, apiVars >>

\* next((img for img in user_images if img["id"] == image_id), None)
FirstWithId(imgs, id) ==
    LET hits == SelectSeq(imgs, LAMBDA img : img.id = id)
    IN  IF hits = <<>> THEN NoImage ELSE hits[1]

\* Lines 79-89: the image to analyse, NoImage when the given id is not there.
SelectImage(imgs, id) ==
    IF id # NoImageId THEN FirstWithId(imgs, id) ELSE imgs[1]

\* Lines 79-91
SelectImageStep ==
    /\ pc = "select_image"
    /\ LET chosen == SelectImage(user_images, image_id)
       IN  /\ image_to_analyze' = chosen
           /\ IF chosen = NoImage
              THEN Return(Failure("Image with ID not found", "select_image"))
              ELSE Goto("download_image")
    /\ UNCHANGED << profiles, skin_profiles, images, search_enabled, openai_enabled,
                    user_id, image_id, calls, user_profile, user_skin_profile,
                    user_images, image_data, analysis_result,
                    recommendations, products, routine, sVars, tVars, apiVars >>

\* _download_image_from_supabase: the body on status 200, None otherwise
\* (another status, or requests.get raised).
_download_image_from_supabase(outcome) ==
    IF outcome.kind = "bytes" THEN outcome ELSE NoImageData

\* Variant: only None counts as a failed download (if image_data is None).
DownloadFailedNoneOnly(data) == data.kind = "none"

\* if not image_data: None and b"" are both falsy
DownloadFailed(data) == data.kind = "none" \/ data.size = 0

\* Step 4 (lines 93-104)
DownloadImage ==
    /\ pc = "download_image"
    /\ \E outcome \in DownloadOutcomes :
         LET data == _download_image_from_supabase(outcome)
         IN  /\ calls' = Append(calls, "download_image")
             /\ image_data' = data
             /\ IF DownloadFailed(data)
                THEN Return(Failure("Failed to download image from storage", "download_image"))
                ELSE Goto("ai_analysis")
    /\ UNCHANGED << profiles, skin_profiles, images, search_enabled, openai_enabled,
                    user_id, image_id, user_profile, user_skin_profile, user_images,
                    image_to_analyze, analysis_result,
                    recommendations, products, routine, sVars, tVars, apiVars >>

\* Variant: without the hosted model the local classifier of main.py is used.
AnalysisCallsWithLocalFallback(enabled) ==
    IF enabled THEN <<"openai_vision">>
    ELSE <<"detect_faces", "classify_skin_conditions">>

\* The calls analyze_skin_image issues: one request to the hosted model when
\* the service is enabled, none otherwise.
AnalysisCalls(enabled) == IF enabled THEN <<"openai_vision">> ELSE <<>>

\* Step 5 (lines 106-121)
AiAnalysis ==
    /\ pc = "ai_analysis"
    /\ \E outcome \in VisionOutcomes :
         LET res == analyze_skin_image(openai_enabled, outcome)
         IN  /\ calls' = calls \o AnalysisCalls(openai_enabled)
             /\ analysis_result' = res
             /\ IF ~res.success
                THEN Return(Failure("AI analysis failed", "ai_analysis"))
                ELSE Goto("recommendations")
    /\ UNCHANGED << profiles, skin_profiles, images, search_enabled, openai_enabled,
                    user_id, image_id, user_profile, user_skin_profile, user_images,
                    image_to_analyze, image_data,
                    recommendations, products, routine, sVars, tVars, apiVars >>

\* Step 6 (lines 123-127)
GenerateRecommendations ==
    /\ pc = "recommendations"
    /\ recommendations' = generate_personalized_recommendations(analysis_result)
    /\ Goto("product_search")
    /\ UNCHANGED << profiles, skin_profiles, images, search_enabled, openai_enabled,
                    user_id, image_id, calls, user_profile, user_skin_profile,
                    user_images, image_to_analyze, image_data, analysis_result,
                    products, routine, sVars, tVars, apiVars >>

SearchCalls(api_queries) == [i \in 1..Len(api_queries) |-> "google_search"]

\* Step 7 (lines 129-134)
ProductSearch ==
    /\ pc = "product_search"
    /\ \E condOutcomes \in [1..Len(Take(recommendations.conditions, TopConditions))
                              -> ConditionOutcomes],
          ingrOutcomes \in [1..Len(Take(recommendations.recommended_ingredients, TopIngredients))
                              -> IngredientOutcomes] :
         LET found == _search_products_for_recommendations(
                          search_enabled, recommendations, user_skin_profile,
                          condOutcomes, ingrOutcomes)
         IN  /\ products' = found
             /\ calls' = calls \o SearchCalls(found.api_queries)
    /\ Goto("routine")
    /\ UNCHANGED << profiles, skin_profiles, images, search_enabled, openai_enabled,
                    user_id, image_id, user_profile, user_skin_profile,
                    user_images, image_to_analyze, image_data, analysis_result,
                    recommendations, routine, sVars, tVars, apiVars >>

\* Step 8 and the return (lines 136-166)
GenerateRoutine ==
    /\ pc = "routine"
    /\ LET made == _generate_skincare_routine(analysis_result.analysis, products)
       IN  /\ routine' = made
           /\ Return(Success(user_profile, user_skin_profile, analysis_result,
                             products, made, image_to_analyze))
    /\ UNCHANGED << profiles, skin_profiles, images, search_enabled, openai_enabled,
                    user_id, image_id, calls, user_profile, user_skin_profile,
                    user_images, image_to_analyze, image_data, analysis_result,
                    recommendations, products, sVars, tVars, apiVars >>

Next ==
    \/ FetchProfile
    \/ FetchSkinProfile
    \/ FetchImages
    \/ SelectImageStep
    \/ DownloadImage
    \/ AiAnalysis
    \/ GenerateRecommendations
    \/ ProductSearch
    \/ GenerateRoutine

Spec == Init /\ [][Next]_vars

\* ------------------------------ a single call of search_products_for_conditions
ConditionNames == {"acne", "dryness"}

ConditionLists == UNION { [1..n -> ConditionNames] : n \in 0..MaxConditionsIn }

ProfilesTried == SkinForms \cup { SkinRow(NoAllergies, "low") }

\* The engine's answers tried for one condition.
SearchOutcomes ==
    { ApiError } \cup { ApiOk(Window(a, n)) : a \in {1, 2, 6}, n \in 0..MaxWindow }

IdleWorkflow ==
    /\ profiles = {}
    /\ skin_profiles = [u \in Users |-> NoProfile]
    /\ images = {}
    /\ search_enabled = TRUE
    /\ openai_enabled = TRUE
    /\ user_id = "u1"
    /\ image_id = NoImageId
    /\ pc = "idle"
    /\ InitWorkflowLocals

InitSearch ==
    /\ IdleWorkflow
    /\ InitTrainIdle
    /\ InitApiIdle
    /\ sPc = "call"
    /\ sArgs \in { [ enabled |-> e, conditions |-> cs, user_profile |-> p, outcomes |-> os ] :
                     e \in BOOLEAN, cs \in ConditionLists, p \in ProfilesTried,
                     os \in UNION { [1..n -> SearchOutcomes] : n \in 0..MaxConditionsIn } }
    /\ Len(sArgs.outcomes) = Len(sArgs.conditions)
    /\ sRet = <<>>

CallSearchForConditions ==
    /\ sPc = "call"
    /\ sRet' = search_products_for_conditions(
                   sArgs.enabled, sArgs.conditions, sArgs.user_profile, sArgs.outcomes)
    /\ sPc' = "done"
    /\ UNCHANGED << sArgs, wfVars, tVars, apiVars >>

NextSearch == CallSearchForConditions

SpecSearch == InitSearch /\ [][NextSearch]_vars

\* --------------------------- a single call of _search_products_for_recommendations
\* The engine's answers tried: two full pages of results and a short one.
RecOutcomes ==
    { ApiError, ApiOk(Window(5, MaxWindow + 1)) }
    \cup { ApiOk(Window(a, GOOGLE_SEARCH_MAX_RESULTS)) : a \in {1, 9} }

RecommendationsTried ==
    { generate_personalized_recommendations(
          analyze_skin_image(TRUE, [kind |-> "ok", text |-> t])) : t \in VisionTexts }

InitRecs ==
    /\ IdleWorkflow
    /\ InitTrainIdle
    /\ InitApiIdle
    /\ sPc = "call"
    /\ \E e \in BOOLEAN, r \in RecommendationsTried,
          p \in { NoProfile, SkinRow([kind |-> "list", items |-> <<"fragrance">>], "high") } :
         \E cos \in [1..Len(Take(r.conditions, TopConditions)) -> RecOutcomes],
            ios \in [1..Len(Take(r.recommended_ingredients, TopIngredients)) -> RecOutcomes] :
           sArgs = [ enabled |-> e, recommendations |-> r, user_skin_profile |-> p,
                     condOutcomes |-> cos, ingrOutcomes |-> ios ]
    /\ sRet = <<>>

CallSearchForRecommendations ==
    /\ sPc = "call"
    /\ sRet' = _search_products_for_recommendations(
                   sArgs.enabled, sArgs.recommendations, sArgs.user_skin_profile,
                   sArgs.condOutcomes, sArgs.ingrOutcomes)
    /\ sPc' = "done"
    /\ UNCHANGED << sArgs, wfVars, tVars, apiVars >>

NextRecs == CallSearchForRecommendations

SpecRecs == InitRecs /\ [][NextRecs]_vars

\* ======================================================================
\* Properties of analyze_user_by_id (specification Spec)
\* ======================================================================
StepOrder ==
    << "fetch_profile", "fetch_skin_profile", "fetch_images", "select_image",
       "download_image", "ai_analysis", "recommendations", "product_search",
       "routine", "done" >>

StepIndex(step) == CHOOSE i \in 1..Len(StepOrder) : StepOrder[i] = step

\* The step a call to a collaborator belongs to.
CallStep(op) ==
    CASE op = "get_profile"      -> "fetch_profile"
      [] op = "get_skin_profile" -> "fetch_skin_profile"
      [] op = "get_user_images"  -> "fetch_images"
      [] op = "download_image"   -> "download_image"
      [] op = "openai_vision"    -> "ai_analysis"
      [] op = "google_search"    -> "product_search"
      [] OTHER                   -> "none"

Count(op) == Cardinality({ i \in 1..Len(calls) : calls[i] = op })
Called(op) == Count(op) > 0

NamedFailures ==
    {"fetch_profile", "fetch_images", "select_image", "download_image", "ai_analysis"}

EndedWithout(ops) == pc = "done" /\ \A op \in ops : ~Called(op)

\* A step that failed ends the run, and no call of a later step is in the log.
C1_FailedStepEndsRun ==
    /\ (pc # "fetch_profile" /\ user_profile.kind = "none")
          => pc = "done" /\ calls = <<"get_profile">>
    /\ (Called("get_user_images") /\ user_images = <<>>)
          => EndedWithout({"download_image", "openai_vision", "google_search"})
    /\ (StepIndex(pc) > StepIndex("select_image") /\ image_to_analyze = NoImage)
          => EndedWithout({"download_image", "openai_vision", "google_search"})
    /\ (Called("download_image") /\ (image_data.kind = "none" \/ image_data.size = 0))
          => EndedWithout({"openai_vision", "google_search"})
    /\ (StepIndex(pc) > StepIndex("ai_analysis") /\ ~analysis_result.success)
          => EndedWithout({"google_search"})
    /\ result.step_failed \in NamedFailures
          => /\ pc = "done"
             /\ \A i \in 1..Len(calls) :
                  StepIndex(CallStep(calls[i])) <= StepIndex(result.step_failed)

\* One step of the run: it goes to the step that follows or returns, it issues
\* only calls of its own step, and a named failure is returned by the step
\* that bears the name.
C1_StepInOrder ==
    pc' # pc =>
      /\ pc' = "done" \/ StepIndex(pc') = StepIndex(pc) + 1
      /\ Len(calls') >= Len(calls)
      /\ SubSeq(calls', 1, Len(calls)) = calls
      /\ \A i \in (Len(calls) + 1)..Len(calls') : CallStep(calls'[i]) = pc
      /\ result'.step_failed \in NamedFailures => result'.step_failed = pc

\* C1: the steps of analyze_user_by_id run one after another in the order
\* fetch profile, fetch skin profile, fetch image list, select image, download
\* image, vision analysis, recommendation generation, product search, routine
\* generation; when fetch_profile, fetch_images, select_image, download_image
\* or ai_analysis fails the run returns at once and no later step starts.
C1_Sequential == []C1_FailedStepEndsRun /\ [][C1_StepInOrder]_vars

\* The download failed after three database calls and nothing followed.
C1_Witness ==
    /\ pc = "done"
    /\ result.step_failed = "download_image"
    /\ image_data.kind = "bytes" /\ image_data.size = 0
    /\ calls = <<"get_profile", "get_skin_profile", "get_user_images", "download_image">>

AllSteps == NamedFailures \cup {"unknown"}

SuccessKeys ==
    { "user_profile", "skin_profile", "ai_analysis", "product_recommendations",
      "personalized_routine", "image_analyzed" }

\* C2: analyze_user_by_id never raises: whatever the collaborators do, it
\* returns a dict with a boolean 'success'; a failure carries an 'error' and a
\* 'step_failed' among fetch_profile, fetch_images, select_image,
\* download_image, ai_analysis, unknown; a success carries user_profile,
\* skin_profile, ai_analysis, product_recommendations, personalized_routine
\* and image_analyzed.
C2_AlwaysReturnsDict ==
    /\ result.outcome # "raised"
    /\ pc = "done" =>
         /\ result.outcome = "returned"
         /\ "success" \in result.keys
         /\ result.success \in BOOLEAN
         /\ ~result.success =>
              /\ {"error", "step_failed"} \subseteq result.keys
              /\ result.error # "none"
              /\ result.step_failed \in AllSteps
         /\ result.success => SuccessKeys \subseteq result.keys

\* An exception inside the body (the allergies column holds null) was caught.
C2_Witness ==
    /\ pc = "done"
    /\ result.step_failed = "unknown"
    /\ user_skin_profile.kind = "row"
    /\ user_skin_profile.allergies.kind = "null"

\* C3: when no profile exists for the user (the query returned no row, or
\* it failed) the run returns success=False, error 'User profile not found',
\* step_failed 'fetch_profile'.
C3_ProfileNotFound ==
    (pc = "done" /\ user_id \notin profiles) =>
        /\ ~result.success
        /\ result.error = "User profile not found"
        /\ result.step_failed = "fetch_profile"

OwnImages == { r \in images : r.user_id = user_id }

LocalClassifierCalls == {"detect_faces", "classify_skin_conditions", "skin_model"}

\* C5: the workflow never invokes the local classifier (detect_faces,
\* classify_skin_conditions, skin_model); the detected conditions come from
\* the hosted vision model's answer only.
C5_NoLocalClassifier ==
    /\ \A i \in 1..Len(calls) : calls[i] \notin LocalClassifierCalls
    /\ analysis_result.success =>
         /\ Count("openai_vision") = 1
         /\ { analysis_result.analysis.conditions_detected[i] :
                i \in 1..Len(analysis_result.analysis.conditions_detected) }
            = { Underscore(conditions_keywords[k]) : k \in
                  { j \in 1..Len(conditions_keywords) :
                      Mentions(analysis_result.analysis.full_analysis,
                               conditions_keywords[j]) } }
    /\ result.success =>
         result.ai_analysis.conditions_detected
             = analysis_result.analysis.conditions_detected

\* A run that succeeded with conditions detected by the hosted model.
C5_Witness ==
    /\ pc = "done"
    /\ result.success
    /\ Len(result.ai_analysis.conditions_detected) >= 2
    /\ Called("openai_vision")

IsConditionQuery(q) == q.query = "skincare products for"
IsIngredientQuery(q) == q.query = "skincare serum"

QueriesOf(kind(_)) ==
    { i \in 1..Len(products.api_queries) : kind(products.api_queries[i]) }

\* C6: no retry.  get_profile, get_skin_profile, get_user_images, the image
\* download and the vision analysis are each issued at most once in a run;
\* the product search issues at most one query per condition for at most 3
\* conditions and at most 2 ingredient queries, at most 5 search calls.
C6_NoRetry ==
    /\ \A op \in { "get_profile", "get_skin_profile", "get_user_images",
                   "download_image", "openai_vision" } : Count(op) <= 1
    /\ Count("google_search") = Len(products.api_queries)
    /\ Count("google_search") <= TopConditions + TopIngredients
    /\ Cardinality(QueriesOf(IsConditionQuery)) <= TopConditions
    /\ Cardinality(QueriesOf(IsIngredientQuery)) <= TopIngredients
    /\ \A i, j \in QueriesOf(IsConditionQuery) :
         products.api_queries[i].condition = products.api_queries[j].condition => i = j
    /\ \A i, j \in QueriesOf(IsIngredientQuery) :
         products.api_queries[i].condition = products.api_queries[j].condition => i = j

\* Four conditions and three ingredients were found, five queries went out
\* and none of them was answered.
C6_Witness ==
    /\ pc = "done"
    /\ Len(recommendations.conditions) > TopConditions
    /\ Len(recommendations.recommended_ingredients) > TopIngredients
    /\ Count("google_search") = TopConditions + TopIngredients
    /\ products.search_queries_used = <<"Conditions">>
    /\ products.products = <<>>

\* C8: with the search service not enabled the product step makes no search
\* call and uses mock products: the result has source 'mock' and at least one
\* mock product.
C8_MockProducts ==
    (pc = "done" /\ result.success /\ ~search_enabled) =>
        /\ ~Called("google_search")
        /\ result.product_recommendations.source = "mock"
        /\ Len(result.product_recommendations.products) >= 1
\* ======================================================================
\* Properties of search_products_for_conditions (specification SpecSearch)
\* ======================================================================
Items(seq) == { seq[i] : i \in 1..Len(seq) }

\* C7: with a user profile that lists allergies, no product of
\* 'recommended_products' has a name or a description that contains one of
\* the listed allergens (as a word of its own: a "fragrance-free" product
\* counts as safe for a fragrance allergy).
C7_AllergySafe ==
    (sPc = "done" /\ sArgs.enabled /\ AllergiesTruthy(sArgs.user_profile.allergies)) =>
        \A product \in Items(sRet.recommended_products) :
            \A allergen \in Items(sArgs.user_profile.allergies.items) :
                /\ allergen \notin product.name
                /\ allergen \notin product.description

NonEmptyUrls(product_seq) == { p.url : p \in Items(product_seq) } \ {0}

\* C10: _deduplicate_and_rank returns exactly one product per distinct
\* non-empty URL of products_by_condition, none with an empty URL, and the
\* product's conditions_matched lists exactly the conditions whose results
\* contain the URL, each of them once.
C10_OnePerUrl ==
    (sPc = "done" /\ sArgs.enabled) =>
        LET pbc == sRet.products_by_condition
            out == sRet.recommended_products
        IN  /\ NonEmptyUrls(out) = UNION { NonEmptyUrls(e.products) : e \in Items(pbc) }
            /\ \A i \in 1..Len(out) : out[i].url # 0
            /\ \A i, j \in 1..Len(out) : out[i].url = out[j].url => i = j
            /\ \A p \in Items(out) :
                 /\ Items(p.conditions_matched)
                      = { e.condition : e \in { x \in Items(pbc) :
                                                  p.url \in NonEmptyUrls(x.products) } }
                 /\ \A k, l \in 1..Len(p.conditions_matched) :
                      p.conditions_matched[k] = p.conditions_matched[l] => k = l

\* ======================================================================
\* Properties of _search_products_for_recommendations (specification SpecRecs)
\* ======================================================================
\* The pages the engine handed back for the queries of one call.
PagesFound(outcomes, max_results) ==
    UNION { Items(_execute_search(outcomes[i], max_results).items) :
              i \in 1..Len(outcomes) }

UrlsFound ==
    { item.link : item \in PagesFound(sArgs.condOutcomes, GOOGLE_SEARCH_MAX_RESULTS)
                           \cup PagesFound(sArgs.ingrOutcomes, IngredientMaxResults) } \ {0}

\* final_score, or relevance_score when there is no final_score
C9_Score(product) ==
    IF product.final_score = NoScore THEN product.relevance_score ELSE product.final_score

\* C9: with the search enabled, 'products' has at most 10 entries, each with
\* a non-empty URL, no two with the same URL, in non-increasing order of
\* score; 'total_found' is the number of distinct non-empty URLs among all
\* products found, so total_found >= len(products).
C9_DedupTopTen ==
    (sPc = "done" /\ sArgs.enabled) =>
        LET out == sRet.products
        IN  /\ Len(out) <= 10
            /\ \A i \in 1..Len(out) : out[i].url # 0
            /\ \A i, j \in 1..Len(out) : out[i].url = out[j].url => i = j
            /\ \A i, j \in 1..Len(out) : i < j => C9_Score(out[i]) >= C9_Score(out[j])
            /\ sRet.total_found = Cardinality(UrlsFound)
            /\ sRet.total_found >= Len(out)
            /\ NonEmptyUrls(out) \subseteq UrlsFound

\* More than ten distinct URLs were found, some twice, from both kinds of
\* query, and ten products came back.
C9_Witness ==
    /\ sPc = "done"
    /\ sArgs.enabled
    /\ sRet.total_found > 10
    /\ Len(sRet.products) = 10
    /\ \E p \in Items(sRet.products) : p.final_score = NoScore
    /\ \E p \in Items(sRet.products) : p.final_score # NoScore
\* ======================================================================
\* main.generate_skincare_routine and the routine generators' inputs
\* ======================================================================
MaxProducts == 5       \* longest product list given to a routine generator

\* product_database of main.search_products (ratings and personalized
\* scores in hundredths, descriptions as the phrases of their lower-case text).
product_database(condition) ==
    CASE condition = "acne" ->
           << [name |-> "CeraVe Acne Foaming Cream Cleanser", brand |-> "CeraVe",
               type |-> "Cleanser", rating |-> 450,
               description |-> {"contains", "benzoyl peroxide", "acne"}],
              [name |-> "The Ordinary Niacinamide 10% + Zinc 1%", brand |-> "The Ordinary",
               type |-> "Serum", rating |-> 460,
               description |-> {"reduces", "blemishes", "oil production"}] >>
      [] condition = "hyperpigmentation" ->
           << [name |-> "Paula's Choice 10% Azelaic Acid Booster", brand |-> "Paula's Choice",
               type |-> "Treatment", rating |-> 470,
               description |-> {"reduces", "dark spots", "skin tone"}],
              [name |-> "The Ordinary Vitamin C Suspension 23%", brand |-> "The Ordinary",
               type |-> "Serum", rating |-> 430,
               description |-> {"brightens", "dark spots"}] >>
      [] condition = "dry_skin" ->
           << [name |-> "CeraVe Moisturizing Cream", brand |-> "CeraVe",
               type |-> "Moisturizer", rating |-> 480,
               description |-> {"rich", "moisturizer", "ceramides", "hyaluronic acid"}] >>
      [] condition = "wrinkles" ->
           << [name |-> "The Ordinary Retinol 0.5% in Squalane", brand |-> "The Ordinary",
               type |-> "Treatment", rating |-> 440,
               description |-> {"anti-aging", "retinol", "treatment"}] >>
      [] OTHER -> <<>>

\* The products a client can put into a /generate-routine request: the
\* catalogue of main.search_products, a sunscreen and a serum sold by size.
MainCatalog ==
    product_database("acne") \o product_database("hyperpigmentation")
      \o product_database("dry_skin") \o product_database("wrinkles")
      \o << [name |-> "Mineral Sunscreen", brand |-> "EltaMD", type |-> "Sunscreen",
             rating |-> 420, description |-> {"gentle", "fragrance-free", "sunscreen"}],
            [name |-> "Vitamin C Serum - 30ml", brand |-> "Timeless", type |-> "Serum",
             rating |-> 410, description |-> {"vitamin c", "fragrance"}] >>

\* name.split(" - ")[0] if " - " in name else name
SplitHead(name) ==
    IF name = "Vitamin C Serum - 30ml" THEN "Vitamin C Serum" ELSE name

OfType(product_list, types) == SelectSeq(product_list, LAMBDA p : p["type"] \in types)

MainStep(n, name, product) ==
    [step |-> n, name |-> name, product |-> product.name, brand |-> product.brand]

\* One of the two routines of main.generate_skincare_routine.
MainRoutineOf(cleansers, treatments, moisturizers, sunscreens, moisturizerName) ==
    LET s1 == IF cleansers # <<>>
              THEN <<MainStep(1, "Gentle Cleanser", cleansers[1])>> ELSE <<>>
        top == Take(treatments, 2)
        s2 == s1 \o [i \in 1..Len(top) |->
                       MainStep(Len(s1) + i, SplitHead(top[i].name), top[i])]
        s3 == IF moisturizers # <<>>
              THEN Append(s2, MainStep(Len(s2) + 1, moisturizerName, moisturizers[1]))
              ELSE s2
    IN  IF sunscreens # <<>>
        THEN Append(s3, MainStep(Len(s3) + 1, "Sunscreen SPF 50", sunscreens[1])) ELSE s3

generate_skincare_routine(conditions, product_list) ==
    LET cleansers == OfType(product_list, {"Cleanser"})
        treatments == OfType(product_list, {"Serum", "Treatment"})
        moisturizers == OfType(product_list, {"Moisturizer"})
        sunscreens == OfType(product_list, {"Sunscreen"})
    IN  [ morning_routine |-> MainRoutineOf(cleansers, treatments, moisturizers,
                                            sunscreens, "Moisturizer"),
          evening_routine |-> MainRoutineOf(cleansers, treatments, moisturizers,
                                            <<>>, "Night Moisturizer"),
          total_products  |-> Len(product_list) ]

\* The products the comprehensive service's generator is tried on: names
\* that fall into one category, into none, and into several.
ServiceCatalog ==
    << [name |-> {"gentle", "cleanser"}, url |-> 1],
       [name |-> {"serum"}, url |-> 2],
       [name |-> {"serum", "spf"}, url |-> 3],
       [name |-> {"vitamin c", "serum"}, url |-> 8],
       [name |-> {"moisturizer"}, url |-> 4],
       [name |-> {"eye cream"}, url |-> 5],
       [name |-> {"sunscreen", "spf"}, url |-> 6],
       [name |-> {"toner"}, url |-> 7] >>

\* Lists of distinct products of a catalogue, in every order (both callers
\* hand over lists without repeated products).
ListsOver(catalog) ==
    UNION { { [i \in 1..n |-> catalog[f[i]]] :
                f \in { g \in [1..n -> 1..Len(catalog)] :
                          \A i, j \in 1..n : g[i] = g[j] => i = j } } :
              n \in 0..MaxProducts }

InitRoutine ==
    /\ IdleWorkflow
    /\ InitTrainIdle
    /\ InitApiIdle
    /\ sPc = "call"
    /\ sArgs \in { [fn |-> "main", products |-> l] : l \in ListsOver(MainCatalog) }
            \cup { [fn |-> "service", products |-> l] : l \in ListsOver(ServiceCatalog) }
    /\ sRet = <<>>

\* POST /generate-routine -> generate_skincare_routine
CallMainRoutine ==
    /\ sPc = "call"
    /\ sArgs.fn = "main"
    /\ sRet' = generate_skincare_routine(<<>>, sArgs.products)
    /\ sPc' = "done"
    /\ UNCHANGED << sArgs, wfVars, tVars, apiVars >>

\* analyze_user_by_id step 9 -> _generate_skincare_routine
CallServiceRoutine ==
    /\ sPc = "call"
    /\ sArgs.fn = "service"
    /\ sRet' = _generate_skincare_routine(NoRecommendations,
                                          [products |-> sArgs.products])
    /\ sPc' = "done"
    /\ UNCHANGED << sArgs, wfVars, tVars, apiVars >>

NextRoutine == CallMainRoutine \/ CallServiceRoutine

SpecRoutine == InitRoutine /\ [][NextRoutine]_vars

\* ======================================================================
\* main.search_products (mock) and main.enhance_product_recommendations
\* ======================================================================
MaxDetected == 2       \* conditions handed to main.search_products

\* SKIN_CONDITIONS entries tried: the four the mock catalogue knows and one
\* it does not.
DetectedNames == {"acne", "hyperpigmentation", "dry_skin", "wrinkles", "oily_skin"}

RECURSIVE ExtendAll(_)
ExtendAll(conditions) ==
    IF conditions = <<>> THEN <<>>
    ELSE product_database(conditions[1]) \o ExtendAll(Tail(conditions))

\* list({product["name"]: product for product in ...}.values())
UniqueByName(product_list) ==
    SelectSeq([ i \in 1..Len(product_list) |->
                  [ first |-> \A j \in 1..(i - 1) : product_list[j].name # product_list[i].name,
                    v     |-> product_list[i] ] ],
              LAMBDA e : e.first)

\* main.search_products
search_products_mock(conditions) ==
    LET unique_products == UniqueByName(ExtendAll(conditions))
    IN  Values(SortPairsDesc([ i \in 1..Len(unique_products) |->
                                 [k |-> unique_products[i].v.rating,
                                  v |-> unique_products[i].v] ]))

\* str.lower() on the allergy names tried.
Lower(word) ==
    CASE word = "Ceramides" -> "ceramides"
      [] word = "Retinol"   -> "retinol"
      [] OTHER              -> word

\* product["type"].lower()
LowerType(t) ==
    CASE t = "Cleanser"    -> {"cleanser"}
      [] t = "Serum"       -> {"serum"}
      [] t = "Treatment"   -> {"treatment"}
      [] t = "Moisturizer" -> {"moisturizer"}
      [] t = "Sunscreen"   -> {"sunscreen"}
      [] OTHER             -> {}

\* The skin-type and sensitivity terms of the personalized score.
PersonalizedScore(product, skin_profile) ==
    LET skin_type == skin_profile.skin_type
        sensitivity == skin_profile.sensitivity_level
        bySkinType ==
            IF skin_type = "dry" /\ Mentions(LowerType(product["type"]), "moisturizer") THEN 2
            ELSE IF skin_type = "oily" /\ Mentions(LowerType(product["type"]), "cleanser") THEN 2
            ELSE IF skin_type = "sensitive" /\ Mentions(product.description, "gentle") THEN 3
            ELSE 0
        bySensitivity ==
            IF sensitivity = "high" /\ Mentions(product.description, "fragrance-free") THEN 2
            ELSE IF sensitivity = "high"
                    /\ \E ingredient \in {"fragrance", "parfum", "alcohol"} :
                           Mentions(product.description, ingredient)
            THEN 0 - 2
            ELSE 0
    IN  bySkinType + bySensitivity

\* for allergy in allergies: if allergy.lower() in description.lower()
ProductSafe(product, allergies) ==
    \A i \in 1..Len(allergies) : ~Mentions(product.description, Lower(allergies[i]))

NotScored == 0 - 1000   \* the key "personalized_score" is absent

Unscored(product_list) ==
    [ i \in 1..Len(product_list) |->
        [ name |-> product_list[i].name, personalized_score |-> NotScored ] ]

\* enhance_product_recommendations.  A profile that is None or {} gives the
\* products back untouched; allergies = None makes the for loop raise
\* TypeError at the first product.
enhance_product_recommendations(product_list, skin_profile) ==
    IF skin_profile.kind \in {"none", "empty"}
    THEN [outcome |-> "returned", products |-> Unscored(product_list)]
    ELSE IF skin_profile.allergies.kind = "null" /\ product_list # <<>>
    THEN [outcome |-> "raised", products |-> <<>>]
    ELSE LET allergies == skin_profile.allergies.items
             safe == SelectSeq(product_list, LAMBDA p : ProductSafe(p, allergies))
             scored == [ i \in 1..Len(safe) |->
                           [ k |-> safe[i].rating
                                     + PersonalizedScore(safe[i], skin_profile) * 10,
                             v |-> safe[i].name ] ]
             sorted == SortPairsDesc(scored)
         IN  [ outcome  |-> "returned",
               products |-> [ i \in 1..Len(sorted) |->
                                [ name |-> sorted[i].v, personalized_score |-> sorted[i].k ] ] ]

DetectedLists ==
    UNION { { f \in [1..n -> DetectedNames] : \A i, j \in 1..n : f[i] = f[j] => i = j } :
              n \in 0..MaxDetected }

AllergyForms ==
    { NoAllergies, [kind |-> "null", items |-> <<>>], [kind |-> "list", items |-> <<>>],
      [kind |-> "list", items |-> <<"Retinol">>],
      [kind |-> "list", items |-> <<"benzoyl peroxide", "Ceramides">>] }

EnhanceProfiles ==
    { NoProfile, [NoProfile EXCEPT !.kind = "empty"] }
    \cup { [SkinRow(al, sens) EXCEPT !.skin_type = t] :
             al \in AllergyForms, sens \in {"low", "high"},
             t \in {"dry", "oily", "sensitive", "normal"} }

InitEnhance ==
    /\ IdleWorkflow
    /\ InitTrainIdle
    /\ InitApiIdle
    /\ sPc = "call"
    /\ sArgs \in { [fn |-> "enhance", conditions |-> c, skin_profile |-> p] :
                     c \in DetectedLists, p \in EnhanceProfiles }
    /\ sRet = <<>>

\* analyze_skin: products = search_products(unique_conditions), then
\* enhance_product_recommendations(products, user_skin_profile, ...)
CallEnhance ==
    /\ sPc = "call"
    /\ sArgs.fn = "enhance"
    /\ sRet' = enhance_product_recommendations(search_products_mock(sArgs.conditions),
                                               sArgs.skin_profile)
    /\ sPc' = "done"
    /\ UNCHANGED << sArgs, wfVars, tVars, apiVars >>

NextEnhance == CallEnhance

SpecEnhance == InitEnhance /\ [][NextEnhance]_vars

\* ======================================================================
\* train_model: the training loop and its checkpoint
\* ======================================================================
num_epochs == 4        \* epochs of a run (50 in the source)

\* val_acc = 100 * val_correct / val_total, the values tried.
ValAccs == {0, 40, 75}

InitTrain ==
    /\ IdleWorkflow
    /\ InitSearchIdle
    /\ InitApiIdle
    /\ tPc = "training"
    /\ epoch = 0
    /\ val_accuracies = <<>>
    /\ best_val_acc = 0
    /\ model_file \in {NoFile, EarlierRun}
    /\ saved_at = {}

\* Variant: an epoch that only equals the best is saved too.
ImprovesOrEquals(val_acc, best) == val_acc >= best

\* if val_acc > best_val_acc
Improves(val_acc, best) == val_acc > best

\* One pass of the loop body: training phase, validation phase, metrics,
\* "save best model".
TrainEpoch ==
    /\ tPc = "training"
    /\ epoch < num_epochs
    /\ \E val_acc \in ValAccs :
         /\ val_accuracies' = Append(val_accuracies, val_acc)
         /\ IF Improves(val_acc, best_val_acc)
            THEN /\ best_val_acc' = val_acc
                 /\ model_file' = epoch + 1
                 /\ saved_at' = saved_at \cup {epoch + 1}
            ELSE UNCHANGED << best_val_acc, model_file, saved_at >>
    /\ epoch' = epoch + 1
    /\ UNCHANGED << tPc, wfVars, sVars, apiVars >>

\* The loop is over: curves, report, "Training completed".
FinishTraining ==
    /\ tPc = "training"
    /\ epoch = num_epochs
    /\ tPc' = "finished"
    /\ UNCHANGED << epoch, val_accuracies, best_val_acc, model_file, saved_at,
                    wfVars, sVars, apiVars >>

NextTrain == TrainEpoch \/ FinishTraining

SpecTrain == InitTrain /\ [][NextTrain]_vars

\* ======================================================================
\* The HTTP API of main.py with the dependencies of auth.py
\* ======================================================================
MaxRequests == 3       \* requests answered in one behaviour

Tokens == {"t1", "t2", "forged"}

\* The user an access token was issued to.
TokenUser(token) ==
    CASE token = "t1" -> "u1"
      [] token = "t2" -> "u2"
      [] OTHER        -> "none"

TokenOf(user) == IF user = "u1" THEN "t1" ELSE "t2"

\* AuthManager.get_user: the provider knows the token or not; when it cannot
\* be reached the call raises, which get_user turns into a failure.
get_user(access_token, up) ==
    IF ~up THEN [success |-> FALSE, user |-> "none", error |-> "raised"]
    ELSE IF access_token \in valid_tokens
    THEN [success |-> TRUE, user |-> TokenUser(access_token), error |-> "none"]
    ELSE [success |-> FALSE, user |-> "none", error |-> "Invalid token"]

\* An answer of the API.
Reply(status, detail, db_ops) ==
    [ status |-> status, detail |-> detail, db_ops |-> db_ops,
      upstream |-> "none", data |-> "none", target |-> 0 ]

\* Variant: a request with a rejected token is served as user u2.
get_current_user_lenient(token, up) ==
    LET user_result == get_user(token, up)
    IN  IF ~user_result.success
        THEN [ ok |-> TRUE, user |-> "u2", get_user |-> user_result.error,
               reply |-> Reply(200, "none", <<>>) ]
        ELSE [ ok |-> TRUE, user |-> user_result.user, get_user |-> "user",
               reply |-> Reply(200, "none", <<>>) ]

\* get_current_user / get_current_user_id: the 401 raised for a failed
\* get_user is caught by the except clause and raised again as a 401.
get_current_user(token, up) ==
    LET user_result == get_user(token, up)
    IN  IF ~user_result.success
        THEN [ ok |-> FALSE, user |-> "none", get_user |-> user_result.error,
               reply |-> Reply(401, "Could not validate credentials", <<>>) ]
        ELSE [ ok |-> TRUE, user |-> user_result.user, get_user |-> "user",
               reply |-> Reply(200, "none", <<>>) ]

\* An endpoint without the dependency; user is the account the body names.
Open(user) ==
    [ok |-> TRUE, user |-> user, get_user |-> "none", reply |-> Reply(200, "none", <<>>)]

\* What a handler did: its answer and the tables it leaves.
Done(reply, p, s, i) ==
    [reply |-> reply, profiles |-> p, skin_profiles |-> s, images |-> i]

NoWrite(reply) == Done(reply, profiles, skin_profiles, images)

Answer(endpoint, token, auth, reply) ==
    /\ api_last' = [ endpoint |-> endpoint, token |-> token,
                     auth |-> IF auth.get_user = "none" THEN "none"
                              ELSE IF auth.ok THEN "accepted" ELSE "rejected",
                     get_user |-> auth.get_user,
                     user |-> auth.user,
                     status |-> reply.status, detail |-> reply.detail,
                     db_ops |-> reply.db_ops, upstream |-> reply.upstream,
                     data |-> reply.data, target |-> reply.target,
                     was_signed_out |-> (token \in signed_out) ]
    /\ api_count' = api_count + 1

WorkflowUntouched ==
    UNCHANGED << search_enabled, openai_enabled, user_id, image_id, pc, calls,
                 user_profile, user_skin_profile, user_images, image_to_analyze,
                 image_data, analysis_result, recommendations, products, routine,
                 result, sVars, tVars >>

\* A request to a protected endpoint: Depends(get_current_user[_id]) runs
\* first, the handler only with the user it returned.
Serve(endpoint, token, up, Handler(_)) ==
    LET auth == get_current_user(token, up)
    IN  /\ api_count < MaxRequests
        /\ IF ~auth.ok
           THEN /\ Answer(endpoint, token, auth, auth.reply)
                /\ UNCHANGED << profiles, skin_profiles, images >>
           ELSE LET h == Handler(auth.user)
                IN  /\ Answer(endpoint, token, auth, h.reply)
                    /\ profiles' = h.profiles
                    /\ skin_profiles' = h.skin_profiles
                    /\ images' = h.images
        /\ WorkflowUntouched

\* The kind of JSON body a returned row gives: a row or null.
DataOf(row) == IF row.kind = "row" THEN "row" ELSE "null"

\* ------------------------------------------------------------ /auth/*
\* POST /auth/signup.  outcome is what auth.sign_up met: a user with a
\* session, a user without one (e-mail confirmation pending), no user, or
\* an exception; created is whether the insert into profiles went through.
\* Variant: the handler's own HTTPException falls into "except Exception".
SignupErrorRewrapped(status, detail) == [status |-> 500, detail |-> "Signup failed"]

\* except HTTPException: raise
SignupError(status, detail) == [status |-> status, detail |-> detail]

signup_handler(user, outcome, created) ==
    IF outcome \in {"no_user", "raises"}
    THEN LET e == SignupError(400, "auth error")
         IN  NoWrite([Reply(e.status, e.detail, <<>>) EXCEPT !.upstream = outcome])
    ELSE IF ~created \/ user \in profiles
    THEN LET e == SignupError(500, "Failed to create user profile")
         IN  NoWrite([Reply(e.status, e.detail, <<"create_profile">>)
                        EXCEPT !.upstream = outcome])
    ELSE IF outcome = "user_no_session"
    THEN Done([Reply(500, "Signup failed", <<"create_profile">>) EXCEPT !.upstream = outcome],
              profiles \cup {user}, skin_profiles, images)
    ELSE Done([Reply(200, "token", <<"create_profile">>)
                 EXCEPT !.upstream = outcome, !.data = TokenOf(user)],
              profiles \cup {user}, skin_profiles, images)

signup ==
    /\ api_count < MaxRequests
    /\ \E user \in Users, created \in BOOLEAN,
          outcome \in {"user_session", "user_no_session", "no_user", "raises"} :
         LET h == signup_handler(user, IF user \in auth_users THEN "no_user" ELSE outcome,
                                 created)
             signed_up == h.reply.upstream \in {"user_session", "user_no_session"}
         IN  /\ Answer("POST /auth/signup", "none", Open(user), h.reply)
             /\ profiles' = h.profiles
             /\ auth_users' = IF signed_up THEN auth_users \cup {user} ELSE auth_users
             /\ valid_tokens' = IF h.reply.upstream = "user_session"
                                THEN valid_tokens \cup {TokenOf(user)} ELSE valid_tokens
    /\ UNCHANGED << skin_profiles, images, signed_out >>
    /\ WorkflowUntouched

\* POST /auth/signin; good is whether the password was right and the provider
\* answered.
signin ==
    /\ api_count < MaxRequests
    /\ \E user \in Users, good \in BOOLEAN :
         IF good /\ user \in auth_users
         THEN /\ Answer("POST /auth/signin", "none", Open(user),
                        [Reply(200, "token", <<>>) EXCEPT !.data = TokenOf(user)])
              /\ valid_tokens' = valid_tokens \cup {TokenOf(user)}
         ELSE /\ Answer("POST /auth/signin", "none", Open(user),
                        Reply(401, "Invalid credentials", <<>>))
              /\ UNCHANGED valid_tokens
    /\ UNCHANGED << profiles, skin_profiles, images, auth_users, signed_out >>
    /\ WorkflowUntouched

\* POST /auth/signout: the handler only answers; auth_manager.sign_out is
\* not called and the provider keeps the session.
TokensAfterSignout(token) == valid_tokens

signout_handler(user) == NoWrite(Reply(200, "Signed out successfully", <<>>))

signout ==
    /\ \E token \in Tokens, up \in BOOLEAN :
         /\ Serve("POST /auth/signout", token, up, LAMBDA u : signout_handler(u))
         /\ IF get_current_user(token, up).ok
            THEN /\ signed_out' = signed_out \cup {token}
                 /\ valid_tokens' = TokensAfterSignout(token)
            ELSE UNCHANGED << signed_out, valid_tokens >>
    /\ UNCHANGED auth_users

\* GET /auth/me
get_current_user_info_handler(user, ok) ==
    LET profile_result == get_profile(profiles, user, ok)
    IN  IF ~profile_result.success
        THEN NoWrite(Reply(404, "User profile not found", <<"get_profile">>))
        ELSE NoWrite([Reply(200, "user and profile", <<"get_profile">>)
                        EXCEPT !.data = DataOf(profile_result.data)])

get_current_user_info ==
    /\ \E token \in Tokens, up \in BOOLEAN, ok \in BOOLEAN :
         Serve("GET /auth/me", token, up, LAMBDA u : get_current_user_info_handler(u, ok))
    /\ UNCHANGED << auth_users, valid_tokens, signed_out >>

\* ------------------------------------------------------------ /profile
\* DatabaseManager.update_profile: the row matched, or None when none did.
update_profile(table, uid, ok) ==
    IF ok THEN [success |-> TRUE,
                data |-> IF uid \in table THEN ProfileRow(uid) ELSE NoProfileRow]
    ELSE [success |-> FALSE, data |-> NoProfileRow]

\* PUT /profile
update_profile_handler(user, ok) ==
    LET r == update_profile(profiles, user, ok)
    IN  IF ~r.success
        THEN NoWrite(Reply(500, "db error", <<"update_profile">>))
        ELSE NoWrite([Reply(200, "Profile updated successfully", <<"update_profile">>)
                        EXCEPT !.data = DataOf(r.data)])

update_profile_endpoint ==
    /\ \E token \in Tokens, up \in BOOLEAN, ok \in BOOLEAN :
         Serve("PUT /profile", token, up, LAMBDA u : update_profile_handler(u, ok))
    /\ UNCHANGED << auth_users, valid_tokens, signed_out >>

\* GET /profile: 404 only when the query failed; otherwise result["data"],
\* which is None when no row matched.
main_get_profile_handler(user, ok) ==
    LET r == get_profile(profiles, user, ok)
    IN  IF ~r.success
        THEN NoWrite(Reply(404, "Profile not found", <<"get_profile">>))
        ELSE NoWrite([Reply(200, "none", <<"get_profile">>) EXCEPT !.data = DataOf(r.data)])

main_get_profile ==
    /\ \E token \in Tokens, up \in BOOLEAN, ok \in BOOLEAN :
         Serve("GET /profile", token, up, LAMBDA u : main_get_profile_handler(u, ok))
    /\ UNCHANGED << auth_users, valid_tokens, signed_out >>

\* ------------------------------------------------------------ /skin-profile
\* The allergies field of a request body: not sent, null, or a list.
UnsetField == [kind |-> "unset", items |-> <<>>]
NullField == [kind |-> "null", items |-> <<>>]
CreateBodies == { UnsetField, [kind |-> "list", items |-> <<"Retinol">>] }
UpdateBodies == CreateBodies \cup { NullField }

\* DatabaseManager.create_skin_profile: skin_data.get("allergies", []); the
\* insert of a second row for a user is refused by the table.
create_skin_profile(table, uid, allergies, ok) ==
    IF ok /\ table[uid].kind = "none"
    THEN LET row == SkinRow(IF allergies.kind = "unset"
                            THEN [kind |-> "list", items |-> <<>>] ELSE allergies, "low")
         IN  [success |-> TRUE, data |-> row, table |-> [table EXCEPT ![uid] = row]]
    ELSE [success |-> FALSE, data |-> NoProfile, table |-> table]

\* DatabaseManager.update_skin_profile with dict(exclude_unset=True): the
\* fields sent overwrite the row's, a null included.
update_skin_profile(table, uid, allergies, ok) ==
    IF ~ok THEN [success |-> FALSE, data |-> NoProfile, table |-> table]
    ELSE IF table[uid].kind = "none"
    THEN [success |-> TRUE, data |-> NoProfile, table |-> table]
    ELSE LET row == IF allergies.kind = "unset" THEN table[uid]
                    ELSE [table[uid] EXCEPT !.allergies = allergies]
         IN  [success |-> TRUE, data |-> row, table |-> [table EXCEPT ![uid] = row]]

\* POST /skin-profile
create_skin_profile_handler(user, allergies, ok1, ok2) ==
    LET existing_result == get_skin_profile(skin_profiles, user, ok1)
        updating == existing_result.success /\ existing_result.data.kind = "row"
        r == IF updating
             THEN update_skin_profile(skin_profiles, user, allergies, ok2)
             ELSE create_skin_profile(skin_profiles, user, allergies, ok2)
        ops == << "get_skin_profile",
                  IF updating THEN "update_skin_profile" ELSE "create_skin_profile" >>
    IN  IF ~r.success
        THEN NoWrite(Reply(500, "db error", ops))
        ELSE Done([Reply(200, "Skin profile saved successfully", ops)
                     EXCEPT !.data = DataOf(r.data)],
                  profiles, r.table, images)

create_skin_profile_endpoint ==
    /\ \E token \in Tokens, up \in BOOLEAN, ok1 \in BOOLEAN, ok2 \in BOOLEAN,
          allergies \in CreateBodies :
         Serve("POST /skin-profile", token, up,
               LAMBDA u : create_skin_profile_handler(u, allergies, ok1, ok2))
    /\ UNCHANGED << auth_users, valid_tokens, signed_out >>

\* GET /skin-profile: as GET /profile.
main_get_skin_profile_handler(user, ok) ==
    LET r == get_skin_profile(skin_profiles, user, ok)
    IN  IF ~r.success
        THEN NoWrite(Reply(404, "Skin profile not found", <<"get_skin_profile">>))
        ELSE NoWrite([Reply(200, "none", <<"get_skin_profile">>)
                        EXCEPT !.data = DataOf(r.data)])

main_get_skin_profile ==
    /\ \E token \in Tokens, up \in BOOLEAN, ok \in BOOLEAN :
         Serve("GET /skin-profile", token, up, LAMBDA u : main_get_skin_profile_handler(u, ok))
    /\ UNCHANGED << auth_users, valid_tokens, signed_out >>

\* PUT /skin-profile
update_skin_profile_handler(user, allergies, ok) ==
    LET r == update_skin_profile(skin_profiles, user, allergies, ok)
    IN  IF ~r.success
        THEN NoWrite(Reply(500, "db error", <<"update_skin_profile">>))
        ELSE Done([Reply(200, "Skin profile updated successfully", <<"update_skin_profile">>)
                     EXCEPT !.data = DataOf(r.data)],
                  profiles, r.table, images)

update_skin_profile_endpoint ==
    /\ \E token \in Tokens, up \in BOOLEAN, ok \in BOOLEAN, allergies \in UpdateBodies :
         Serve("PUT /skin-profile", token, up,
               LAMBDA u : update_skin_profile_handler(u, allergies, ok))
    /\ UNCHANGED << auth_users, valid_tokens, signed_out >>

\* ------------------------------------------------------------ /images
\* GET /images
main_get_user_images_handler(user, ok) ==
    LET r == get_user_images(images, user, ok)
    IN  IF ~r.success
        THEN NoWrite(Reply(500, "db error", <<"get_user_images">>))
        ELSE NoWrite([Reply(200, "none", <<"get_user_images">>) EXCEPT !.data = "rows"])

main_get_user_images ==
    /\ \E token \in Tokens, up \in BOOLEAN, ok \in BOOLEAN :
         Serve("GET /images", token, up, LAMBDA u : main_get_user_images_handler(u, ok))
    /\ UNCHANGED << auth_users, valid_tokens, signed_out >>

\* DatabaseManager.delete_user_image: delete().eq("id", image_id)
delete_user_image(table, id, ok) ==
    IF ok THEN [success |-> TRUE, table |-> { r \in table : r.id # id }]
    ELSE [success |-> FALSE, table |-> table]

\* Variant: every image passes for one of the caller's.
ImageExistsAny(user_image_rows, id) == TRUE

\* any(img["id"] == image_id for img in user_images)
ImageExists(user_image_rows, id) ==
    \E i \in 1..Len(user_image_rows) : user_image_rows[i].id = id

\* DELETE /images/{image_id}
main_delete_user_image_handler(user, id, ok1, ok2) ==
    LET images_result == get_user_images(images, user, ok1)
    IN  IF ~images_result.success
        THEN NoWrite([Reply(500, "Failed to verify image ownership", <<"get_user_images">>)
                        EXCEPT !.target = id])
        ELSE IF ~ImageExists(images_result.data, id)
        THEN NoWrite([Reply(404, "Image not found or access denied", <<"get_user_images">>)
                        EXCEPT !.target = id])
        ELSE LET r == delete_user_image(images, id, ok2)
                 ops == <<"get_user_images", "delete_user_image">>
             IN  IF ~r.success
                 THEN NoWrite([Reply(500, "db error", ops) EXCEPT !.target = id])
                 ELSE Done([Reply(200, "Image deleted successfully", ops)
                              EXCEPT !.target = id],
                           profiles, skin_profiles, r.table)

\* The ids a request can name: those of the table and one of no row.
RequestedIds == 1..(MaxImages + 1)

main_delete_user_image ==
    /\ \E token \in Tokens, up \in BOOLEAN, ok1 \in BOOLEAN, ok2 \in BOOLEAN,
          id \in RequestedIds :
         Serve("DELETE /images/{image_id}", token, up,
               LAMBDA u : main_delete_user_image_handler(u, id, ok1, ok2))
    /\ UNCHANGED << auth_users, valid_tokens, signed_out >>

\* ------------------------------------------------------------ analysis
\* except Exception as e: raise HTTPException(status_code=500, ...); the
\* handler has no "except HTTPException: raise", and HTTPException is an
\* Exception.
AnalysisError(status, detail) == [status |-> 500, detail |-> "Analysis failed"]

\* The enhanced products as the dicts of the product list they came from.
EnhancedOf(found, enhanced_products) ==
    [ i \in 1..Len(enhanced_products) |->
        CHOOSE p \in { found[j] : j \in 1..Len(found) } : p.name = enhanced_products[i].name ]

\* POST /analyze-skin.  faces: a face was found in some analysed frame;
\* unique_conditions: the conditions then classified above 0.3.
analyze_skin_handler(user, faces, unique_conditions, ok) ==
    IF ~faces
    THEN LET e == AnalysisError(400, "No faces detected in the uploaded file")
         IN  NoWrite([Reply(e.status, e.detail, <<>>) EXCEPT !.upstream = "no_faces"])
    ELSE LET found == search_products_mock(unique_conditions)
             skin_profile_result == get_skin_profile(skin_profiles, user, ok)
             enhanced == enhance_product_recommendations(found, skin_profile_result.data)
         IN  IF enhanced.outcome = "raised"
             THEN NoWrite([Reply(500, "Analysis failed", <<"get_skin_profile">>)
                             EXCEPT !.upstream = "faces"])
             ELSE NoWrite([Reply(200, "none", <<"get_skin_profile">>)
                             EXCEPT !.upstream = "faces",
                                    !.data = generate_skincare_routine(
                                                unique_conditions,
                                                EnhancedOf(found, enhanced.products))])

AnalysedConditions == { <<>>, <<"acne">>, <<"dry_skin", "wrinkles">> }

analyze_skin ==
    /\ \E token \in Tokens, up \in BOOLEAN, ok \in BOOLEAN, faces \in BOOLEAN,
          unique_conditions \in AnalysedConditions :
         Serve("POST /analyze-skin", token, up,
               LAMBDA u : analyze_skin_handler(u, faces, IF faces THEN unique_conditions
                                                          ELSE <<>>, ok))
    /\ UNCHANGED << auth_users, valid_tokens, signed_out >>

\* POST /search-products
search_products_endpoint_handler(user, conditions) ==
    NoWrite([Reply(200, "none", <<>>) EXCEPT !.data = search_products_mock(conditions)])

search_products_endpoint ==
    /\ \E token \in Tokens, up \in BOOLEAN, conditions \in AnalysedConditions :
         Serve("POST /search-products", token, up,
               LAMBDA u : search_products_endpoint_handler(u, conditions))
    /\ UNCHANGED << auth_users, valid_tokens, signed_out >>

\* POST /generate-routine
generate_routine_endpoint_handler(user, conditions) ==
    NoWrite([Reply(200, "none", <<>>)
               EXCEPT !.data = generate_skincare_routine(conditions,
                                                         search_products_mock(conditions))])

generate_routine_endpoint ==
    /\ \E token \in Tokens, up \in BOOLEAN, conditions \in AnalysedConditions :
         Serve("POST /generate-routine", token, up,
               LAMBDA u : generate_routine_endpoint_handler(u, conditions))
    /\ UNCHANGED << auth_users, valid_tokens, signed_out >>

\* ------------------------------------------------------------ the server
InitApi ==
    /\ profiles = {"u1"}
    /\ skin_profiles \in { [u \in Users |-> NoProfile],
                            [u \in Users |-> IF u = "u1"
                                             THEN SkinRow([kind |-> "list", items |-> <<"Retinol">>],
                                                          "low")
                                             ELSE NoProfile] }
    /\ images = { ImageRow(i) : i \in ImageIds }
    /\ search_enabled = TRUE
    /\ openai_enabled = TRUE
    /\ user_id = "u1"
    /\ image_id = NoImageId
    /\ pc = "idle"
    /\ InitWorkflowLocals
    /\ InitSearchIdle
    /\ InitTrainIdle
    /\ auth_users = {"u1"}
    /\ valid_tokens = {"t1"}
    /\ signed_out = {}
    /\ api_count = 0
    /\ api_last = NoRequest

NextApi ==
    \/ signup
    \/ signin
    \/ signout
    \/ get_current_user_info
    \/ update_profile_endpoint
    \/ main_get_profile
    \/ create_skin_profile_endpoint
    \/ main_get_skin_profile
    \/ update_skin_profile_endpoint
    \/ main_get_user_images
    \/ main_delete_user_image
    \/ analyze_skin
    \/ search_products_endpoint
    \/ generate_routine_endpoint

SpecApi == InitApi /\ [][NextApi]_vars

\* ======================================================================
\* Ranking of _deduplicate_and_rank (specification SpecSearch)
\* ======================================================================
\* The pages of the engine's index that carry the URL.
PagesOfUrl(url) == { k \in 1..CatalogSize : CatalogItem(k).link = url }

\* The sum that final_score caps: relevance, 0.1 per entry of
\* conditions_matched, 0.1 for a rating, 0.05 for a price (in hundredths).
C11_Sum(p) ==
    p.relevance_score + 10 * Len(p.conditions_matched)
      + (IF p.rating THEN 10 ELSE 0) + (IF p.price THEN 5 ELSE 0)

C12_Morning == IF sArgs.fn = "main" THEN sRet.morning_routine ELSE sRet.morning

C12_Evening == IF sArgs.fn = "main" THEN sRet.evening_routine ELSE sRet.evening

\* The products of the input list a step can have taken its product from.
C12_Sources(s) ==
    IF sArgs.fn = "main"
    THEN { p \in Items(sArgs.products) : p.name = s.product /\ p.brand = s.brand }
    ELSE { p \in Items(sArgs.products) : p.name = s.product /\ p.url = s.url }

\* The slot of a step: 1 cleanser, 2 treatment/serum, 3 moisturizer,
\* 4 sunscreen, 0 anything else.  main's steps are told apart by the type of
\* their product, the service's by their action.
C12_Slot(s) ==
    IF sArgs.fn = "main"
    THEN IF \E p \in C12_Sources(s) : p["type"] = "Cleanser" THEN 1
         ELSE IF \E p \in C12_Sources(s) : p["type"] \in {"Serum", "Treatment"} THEN 2
         ELSE IF \E p \in C12_Sources(s) : p["type"] = "Moisturizer" THEN 3
         ELSE IF \E p \in C12_Sources(s) : p["type"] = "Sunscreen" THEN 4
         ELSE 0
    ELSE IF s.action \in {"Gentle Cleanser", "Double Cleanse"} THEN 1
         ELSE IF s.action = "Treatment Serum" THEN 2
         ELSE IF s.action \in {"Moisturizer", "Night Moisturizer"} THEN 3
         ELSE IF s.action = "Sunscreen SPF 30+" THEN 4
         ELSE 0

C12_InSlot(r, k) == Cardinality({ i \in 1..Len(r) : C12_Slot(r[i]) = k })

C12_WellSlotted(r) ==
    /\ \A i \in 1..Len(r) : r[i].step = i
    /\ \A i \in 1..Len(r) : C12_Slot(r[i]) \in 1..4 /\ C12_Sources(r[i]) # {}
    /\ \A i, j \in 1..Len(r) : i < j => C12_Slot(r[i]) <= C12_Slot(r[j])
    /\ C12_InSlot(r, 1) <= 1
    /\ C12_InSlot(r, 2) <= 2
    /\ C12_InSlot(r, 3) <= 1
    /\ C12_InSlot(r, 4) <= 1

\* C12: both routine generators number the steps of the morning and of the
\* evening routine 1..n without gap, in the order cleanser (at most 1),
\* treatments (at most 2), moisturizer (at most 1), sunscreen (at most 1,
\* morning only); morning has at most 5 steps, evening at most 4 and no
\* sunscreen step, and every step's product is one of the input list.
C12_RoutineSlots ==
    (sPc = "done" /\ sArgs.fn \in {"main", "service"}) =>
        /\ C12_WellSlotted(C12_Morning)
        /\ C12_WellSlotted(C12_Evening)
        /\ C12_InSlot(C12_Evening, 4) = 0
        /\ Len(C12_Morning) <= 5
        /\ Len(C12_Evening) <= 4

\* The service's generator on a list with three serums, one of them also a
\* sunscreen by its name: full routines of 5 and 4 steps.
C12_Witness ==
    /\ sPc = "done" /\ sArgs.fn = "service"
    /\ Len(NameHas(sArgs.products, {"serum"})) = 3
    /\ Len(C12_Morning) = 5
    /\ Len(C12_Evening) = 4

\* ======================================================================
\* Checkpointing of train_model (specification SpecTrain)
\* ======================================================================
C13_MaxSoFar ==
    CHOOSE m \in {0} \cup Items(val_accuracies) :
        \A a \in {0} \cup Items(val_accuracies) : a <= m

\* The earliest completed epoch whose validation accuracy is best_val_acc
\* (0 when there is none).
C13_EarliestBest ==
    IF \E e \in 1..epoch : val_accuracies[e] = best_val_acc
    THEN CHOOSE e \in 1..epoch :
             /\ val_accuracies[e] = best_val_acc
             /\ \A d \in 1..(e - 1) : val_accuracies[d] # best_val_acc
    ELSE 0

\* The file is written at the end of exactly the epochs that beat 0.0 and
\* every earlier epoch.
C13_SavedIffImproved ==
    \A e \in 1..epoch :
        e \in saved_at <=> /\ val_accuracies[e] > 0
                           /\ \A d \in 1..(e - 1) : val_accuracies[e] > val_accuracies[d]

C13_BestIsMax == best_val_acc = C13_MaxSoFar

C13_BestNeverDecreases == best_val_acc' >= best_val_acc

\* C13 as stated: the file is written exactly at the improving epochs,
\* best_val_acc is the maximum of 0.0 and the accuracies so far and never
\* decreases, and after every epoch the file on disk, when it exists, holds
\* the weights of the earliest epoch that reached best_val_acc.
C13_Checkpointing ==
    /\ [](tPc # "idle" => C13_SavedIffImproved /\ C13_BestIsMax)
    /\ [][C13_BestNeverDecreases]_vars
    /\ []((tPc # "idle" /\ epoch >= 1 /\ model_file # NoFile)
            => model_file = C13_EarliestBest)

\* C13 amended: as above, but the file holds the weights of the earliest
\* epoch that reached best_val_acc from the first epoch with an accuracy
\* above 0.0 on; until then the run has not written the file, which is
\* absent or still the one an earlier run left.
C13_CheckpointingOfRun ==
    /\ [](tPc # "idle" => C13_SavedIffImproved /\ C13_BestIsMax)
    /\ [][C13_BestNeverDecreases]_vars
    /\ []((tPc # "idle" /\ best_val_acc > 0) => model_file = C13_EarliestBest)
    /\ []((tPc # "idle" /\ best_val_acc = 0)
            => saved_at = {} /\ model_file \in {NoFile, EarlierRun})

\* A finished run whose first epoch scored 0.0 and whose best accuracy was
\* reached twice, after an earlier improvement: the file holds the first of
\* the two.
C13_Witness ==
    /\ tPc = "finished"
    /\ val_accuracies[1] = 0
    /\ \E a, b \in 1..epoch :
         /\ a < b
         /\ val_accuracies[a] = best_val_acc
         /\ val_accuracies[b] = best_val_acc
         /\ model_file = a
         /\ saved_at # {a}

\* ======================================================================
\* Allergies in enhance_product_recommendations (specification SpecEnhance)
\* ======================================================================
\* The allergies the profile lists; an absent or null field lists none.
C17_Listed(skin_profile) ==
    IF skin_profile.allergies.kind = "list"
    THEN Items(skin_profile.allergies.items) ELSE {}

\* C17: when a skin profile is given, enhance_product_recommendations returns
\* a list that holds exactly the products whose description contains none
\* of the profile's allergies (compared in lower case), for every stored
\* form of the allergies field, an absent or null one included.
C17_AllergyFilter ==
    (sPc = "done" /\ sArgs.fn = "enhance" /\ sArgs.skin_profile.kind = "row") =>
        /\ sRet.outcome = "returned"
        /\ { p.name : p \in Items(sRet.products) }
             = { p.name : p \in { q \in Items(search_products_mock(sArgs.conditions)) :
                     \A allergy \in C17_Listed(sArgs.skin_profile) :
                         ~Mentions(q.description, Lower(allergy)) } }

\* ======================================================================
\* Properties of the HTTP API (specification SpecApi)
\* ======================================================================
ProtectedEndpoints ==
    { "GET /auth/me", "POST /auth/signout", "PUT /profile", "GET /profile",
      "POST /skin-profile", "GET /skin-profile", "PUT /skin-profile", "GET /images",
      "DELETE /images/{image_id}", "POST /analyze-skin", "POST /search-products",
      "POST /generate-routine" }

\* C14: POST /analyze-skin answers with HTTP status 400 and the detail
\* 'No faces detected in the uploaded file' when no face is detected in any
\* analysed frame of the upload.
C14_NoFacesAnswer ==
    ( /\ api_last.endpoint = "POST /analyze-skin"
      /\ api_last.auth = "accepted"
      /\ api_last.upstream = "no_faces" ) =>
        /\ api_last.status = 400
        /\ api_last.detail = "No faces detected in the uploaded file"

\* C15: every protected endpoint runs its handler only when get_user
\* succeeded for the presented bearer token; a request whose token get_user
\* rejects, or for which it raises, is answered 401, performs no database
\* operation and leaves every table as it was.
C15_AuthRequired ==
    [][ api_last'.endpoint \in ProtectedEndpoints =>
          /\ api_last'.get_user \in {"Invalid token", "raised"} =>
               /\ api_last'.status = 401
               /\ api_last'.db_ops = <<>>
               /\ UNCHANGED << profiles, skin_profiles, images >>
          /\ (api_last'.status # 401 \/ api_last'.db_ops # <<>>) =>
               /\ api_last'.get_user = "user"
               /\ api_last'.token \in valid_tokens
               /\ api_last'.user = TokenUser(api_last'.token) ]_vars

\* C15 witness: a delete of the caller's own image, presented with a token
\* that is valid while the auth provider raises, was answered 401 and the
\* table still holds every row.
C15_Witness ==
    /\ api_last.endpoint = "DELETE /images/{image_id}"
    /\ api_last.token = "t1"
    /\ api_last.token \in valid_tokens
    /\ api_last.get_user = "raised"
    /\ api_last.status = 401
    /\ api_last.db_ops = <<>>
    /\ images = { ImageRow(i) : i \in ImageIds }

\* The ids of the rows of the table that belong to the user.
C16_IdsOf(user) == { r.id : r \in { q \in images : q.user_id = user } }

\* A row leaves the table only through DELETE /images/{image_id} asked by
\* the row's owner for that row.
C16_DeletedByOwner ==
    \A r \in images \ images' :
        /\ api_last'.endpoint = "DELETE /images/{image_id}"
        /\ api_last'.auth = "accepted"
        /\ api_last'.user = r.user_id
        /\ api_last'.target = r.id

\* C16 (as stated): an image row is deleted only by a request whose
\* authenticated user id equals the row's user_id; a request naming an image
\* that is not among the caller's images gets 404 'Image not found or access
\* denied' and changes no row.
C16_DeleteOwnOnly ==
    [][ /\ C16_DeletedByOwner
        /\ ( /\ api_last'.endpoint = "DELETE /images/{image_id}"
             /\ api_last'.auth = "accepted"
             /\ api_last'.target \notin C16_IdsOf(api_last'.user) ) =>
               /\ api_last'.status = 404
               /\ api_last'.detail = "Image not found or access denied"
               /\ images' = images ]_vars

\* C16 (amended): as above, where the answer to a request naming an image
\* that is not among the caller's images is 404 'Image not found or access
\* denied' when the lookup of the caller's images went through and 500
\* 'Failed to verify image ownership' when it failed; no row changes in
\* either case.
C16_DeleteOwnOnlyChecked ==
    [][ /\ C16_DeletedByOwner
        /\ ( /\ api_last'.endpoint = "DELETE /images/{image_id}"
             /\ api_last'.auth = "accepted"
             /\ api_last'.target \notin C16_IdsOf(api_last'.user) ) =>
               /\ images' = images
               /\ \/ /\ api_last'.status = 404
                     /\ api_last'.detail = "Image not found or access denied"
                  \/ /\ api_last'.status = 500
                     /\ api_last'.detail = "Failed to verify image ownership"
                     /\ api_last'.db_ops = <<"get_user_images">> ]_vars

\* C16 witness: user u1 asked to delete image 2, a row of user u2, was
\* answered 404 and the row is still there; and a row of u1 is gone.
C16_Witness ==
    /\ api_last.endpoint = "DELETE /images/{image_id}"
    /\ api_last.user = "u1"
    /\ api_last.target = 2
    /\ ImageOwner(2) = "u2"
    /\ api_last.status = 404
    /\ ImageRow(2) \in images
    /\ ImageRow(1) \notin images

\* C18: GET /profile answers 404 'Profile not found' and GET /skin-profile
\* answers 404 'Skin profile not found' whenever the authenticated user has
\* no row in the table, also when the query succeeds and returns zero rows;
\* a 200 answer always carries an existing row.
C18_NotFound ==
    /\ ( /\ api_last.endpoint = "GET /profile"
         /\ api_last.auth = "accepted"
         /\ api_last.user \notin profiles ) =>
           /\ api_last.status = 404
           /\ api_last.detail = "Profile not found"
    /\ ( /\ api_last.endpoint = "GET /skin-profile"
         /\ api_last.auth = "accepted"
         /\ skin_profiles[api_last.user].kind = "none" ) =>
           /\ api_last.status = 404
           /\ api_last.detail = "Skin profile not found"
    /\ ( /\ api_last.endpoint \in {"GET /profile", "GET /skin-profile"}
         /\ api_last.status = 200 ) =>
           api_last.data = "row"

\* The account a sign-up was asked for got its profiles row in this step.
C19_ProfileCreated == api_last'.user \in profiles' \ profiles

\* C19: POST /auth/signup answers 400 with the auth error, without calling
\* create_profile, when sign_up reports failure; 500 'Failed to create user
\* profile' when sign_up succeeded and create_profile failed; an
\* HTTPException raised in the handler keeps its status and detail and is
\* not rewrapped as 'Signup failed'; a token is returned only when both
\* sign_up and create_profile succeeded.
C19_Signup ==
    [][ api_last'.endpoint = "POST /auth/signup" =>
          /\ api_last'.upstream \in {"no_user", "raises"} =>
               /\ api_last'.status = 400
               /\ api_last'.detail = "auth error"
               /\ api_last'.db_ops = <<>>
               /\ profiles' = profiles
          /\ ( /\ api_last'.upstream \in {"user_session", "user_no_session"}
               /\ ~C19_ProfileCreated ) =>
               /\ api_last'.status = 500
               /\ api_last'.detail = "Failed to create user profile"
          /\ api_last'.detail = "Signup failed" =>
               /\ api_last'.upstream = "user_no_session"
               /\ C19_ProfileCreated
          /\ api_last'.status = 200 =>
               /\ api_last'.upstream = "user_session"
               /\ C19_ProfileCreated
               /\ api_last'.data = TokenOf(api_last'.user)
               /\ api_last'.data \in valid_tokens' ]_vars

\* C19 witness: the sign-up of u2 went through at the auth provider, the
\* insert of the profile failed, and the answer was 500 'Failed to create user
\* profile': u2 has an account, no profiles row, and got no token.
C19_Witness ==
    /\ api_last.endpoint = "POST /auth/signup"
    /\ api_last.user = "u2"
    /\ api_last.upstream \in {"user_session", "user_no_session"}
    /\ api_last.status = 500
    /\ api_last.detail = "Failed to create user profile"
    /\ api_last.db_ops = <<"create_profile">>
    /\ api_last.data = "none"
    /\ "u2" \in auth_users
    /\ "u2" \notin profiles

\* C20: after a sign-out answered 'Signed out successfully', a later request
\* to a protected endpoint that presents the same access token is rejected
\* with 401.
C20_SignedOutRejected ==
    (api_last.endpoint \in ProtectedEndpoints /\ api_last.was_signed_out) =>
        api_last.status = 401

====
